---------------------------- MODULE Spec2Model ----------------------------
(***************************************************************************)
(* A model of the higher-order unifier of src/library/unifier.cpp:         *)
(* the simple (first-order and pattern) unifier unify_simple, the          *)
(* convenience form unify(env, lhs, rhs, ...) and the engine unifier_fn    *)
(* with its constraint queue, occurrence indices, case-split stack and     *)
(* lazy solution stream.                                                   *)
(*                                                                         *)
(* Expressions, universe levels, substitutions, justifications and the     *)
(* kernel type checker are collaborators of the unifier whose code is not  *)
(* part of unifier.cpp; they are modelled from their interface.            *)
(***************************************************************************)
EXTENDS Integers, Sequences, FiniteSets, TLC

(***************************************************************************)
(* Universe levels.                                                        *)
(***************************************************************************)
mk_level_zero == [k |-> "lzero"]
mk_succ(l) == [k |-> "lsucc", l |-> l]
mk_meta_univ(n) == [k |-> "lmeta", n |-> n]
mk_param_univ(n) == [k |-> "lparam", n |-> n]
mk_max(a, b) == [k |-> "lmax", a |-> a, b |-> b]

is_succ(l) == l.k = "lsucc"
is_meta_lvl(l) == l.k = "lmeta"
succ_of(l) == l.l
meta_id(l) == l.n

RECURSIVE has_meta(_)
has_meta(l) ==
    CASE l.k = "lmeta" -> TRUE
      [] l.k = "lsucc" -> has_meta(l.l)
      [] l.k = "lmax" -> has_meta(l.a) \/ has_meta(l.b)
      [] OTHER -> FALSE

\* The universe metavariables of a level.
RECURSIVE level_metas(_)
level_metas(l) ==
    CASE l.k = "lmeta" -> {l.n}
      [] l.k = "lsucc" -> level_metas(l.l)
      [] l.k = "lmax" -> level_metas(l.a) \cup level_metas(l.b)
      [] OTHER -> {}

\* The kernel's normal form of a level: successors are pushed inside max,
\* max of two equal levels and max with zero collapse.
RECURSIVE normalize(_)
normalize(l) ==
    CASE l.k = "lsucc" ->
            LET n == normalize(l.l) IN
            IF n.k = "lmax" THEN normalize(mk_max(mk_succ(n.a), mk_succ(n.b)))
            ELSE mk_succ(n)
      [] l.k = "lmax" ->
            LET a == normalize(l.a)
                b == normalize(l.b) IN
            IF a = b THEN a
            ELSE IF a = mk_level_zero THEN b
            ELSE IF b = mk_level_zero THEN a
            ELSE mk_max(a, b)
      [] OTHER -> l

(***************************************************************************)
(* Expressions.  Names are numbers.  A local constant and a metavariable   *)
(* carry their type; equality is structural.                               *)
(***************************************************************************)
mk_var(i) == [k |-> "var", i |-> i]
mk_local(n, t) == [k |-> "local", n |-> n, t |-> t]
mk_metavar(n, t) == [k |-> "meta", n |-> n, t |-> t]
mk_constant(n) == [k |-> "const", n |-> n]
mk_sort(l) == [k |-> "sort", l |-> l]
mk_lambda(d, b) == [k |-> "lam", d |-> d, b |-> b]
mk_pi(d, b) == [k |-> "pi", d |-> d, b |-> b]
mk_app1(f, a) == [k |-> "app", f |-> f, a |-> a]
mk_macro(d, args) == [k |-> "macro", d |-> d, args |-> args]

is_var(e) == e.k = "var"
is_local(e) == e.k = "local"
is_metavar(e) == e.k = "meta"
is_constant(e) == e.k = "const"
is_sort(e) == e.k = "sort"
is_lambda(e) == e.k = "lam"
is_pi(e) == e.k = "pi"
is_binding(e) == e.k \in {"lam", "pi"}
is_app(e) == e.k = "app"
is_macro(e) == e.k = "macro"

\* is_expr / is_level of the Lua API: the type of a value on the Lua stack
is_expr(v) == v.k \in {"var", "local", "meta", "const", "sort", "lam", "pi", "app", "macro"}
is_level(v) == v.k \in {"lzero", "lsucc", "lmeta", "lparam", "lmax"}
mlocal_name(e) == e.n
mlocal_type(e) == e.t
binding_domain(e) == e.d
binding_body(e) == e.b

RECURSIVE get_app_fn(_)
get_app_fn(e) == IF is_app(e) THEN get_app_fn(e.f) ELSE e

RECURSIVE get_app_args(_)
get_app_args(e) == IF is_app(e) THEN Append(get_app_args(e.f), e.a) ELSE <<>>

RECURSIVE mk_app(_, _)
mk_app(f, args) ==
    IF args = <<>> THEN f
    ELSE mk_app(mk_app1(f, Head(args)), Tail(args))

\* is_meta(e): e is a metavariable or the application of one
is_meta(e) == is_metavar(get_app_fn(e))

SeqToSet(s) == {s[i] : i \in DOMAIN s}

RECURSIVE has_metavar(_)
has_metavar(e) ==
    CASE e.k = "meta" -> TRUE
      [] e.k = "local" -> has_metavar(e.t)
      [] e.k = "sort" -> has_meta(e.l)
      [] e.k = "app" -> has_metavar(e.f) \/ has_metavar(e.a)
      [] e.k \in {"lam", "pi"} -> has_metavar(e.d) \/ has_metavar(e.b)
      [] e.k = "macro" -> \E i \in DOMAIN e.args : has_metavar(e.args[i])
      [] OTHER -> FALSE

RECURSIVE has_local(_)
has_local(e) ==
    CASE e.k = "local" -> TRUE
      [] e.k = "meta" -> has_local(e.t)
      [] e.k = "app" -> has_local(e.f) \/ has_local(e.a)
      [] e.k \in {"lam", "pi"} -> has_local(e.d) \/ has_local(e.b)
      [] e.k = "macro" -> \E i \in DOMAIN e.args : has_local(e.args[i])
      [] OTHER -> FALSE

\* lift_free_vars(e, s, d): add d to every bound variable of e with index >= s
RECURSIVE lift_free_vars(_, _, _)
lift_free_vars(e, s, d) ==
    CASE e.k = "var" -> IF e.i >= s THEN mk_var(e.i + d) ELSE e
      [] e.k = "app" -> mk_app1(lift_free_vars(e.f, s, d), lift_free_vars(e.a, s, d))
      [] e.k = "lam" -> mk_lambda(lift_free_vars(e.d, s, d), lift_free_vars(e.b, s + 1, d))
      [] e.k = "pi" -> mk_pi(lift_free_vars(e.d, s, d), lift_free_vars(e.b, s + 1, d))
      [] e.k = "macro" ->
            mk_macro(e.d, [i \in DOMAIN e.args |-> lift_free_vars(e.args[i], s, d)])
      [] OTHER -> e

\* instantiate_at(e, i, v): replace bound variable i by v, lower the variables above it
RECURSIVE instantiate_at(_, _, _)
instantiate_at(e, i, v) ==
    CASE e.k = "var" ->
            IF e.i = i THEN lift_free_vars(v, 0, i)
            ELSE IF e.i > i THEN mk_var(e.i - 1)
            ELSE e
      [] e.k = "app" -> mk_app1(instantiate_at(e.f, i, v), instantiate_at(e.a, i, v))
      [] e.k = "lam" -> mk_lambda(instantiate_at(e.d, i, v), instantiate_at(e.b, i + 1, v))
      [] e.k = "pi" -> mk_pi(instantiate_at(e.d, i, v), instantiate_at(e.b, i + 1, v))
      [] e.k = "macro" ->
            mk_macro(e.d, [j \in DOMAIN e.args |-> instantiate_at(e.args[j], i, v)])
      [] OTHER -> e

instantiate(body, v) == instantiate_at(body, 0, v)

\* apply_beta(f, args): consume leading lambdas of f with args, apply the rest
RECURSIVE apply_beta(_, _)
apply_beta(f, args) ==
    IF args = <<>> THEN f
    ELSE IF is_lambda(f) THEN apply_beta(instantiate(f.b, Head(args)), Tail(args))
    ELSE mk_app(f, args)

\* abstract_at(e, l, i): replace the local constant l by bound variable i
RECURSIVE abstract_at(_, _, _)
abstract_at(e, l, i) ==
    CASE e.k = "local" -> IF e.n = l.n THEN mk_var(i) ELSE e
      [] e.k = "app" -> mk_app1(abstract_at(e.f, l, i), abstract_at(e.a, l, i))
      [] e.k = "lam" -> mk_lambda(abstract_at(e.d, l, i), abstract_at(e.b, l, i + 1))
      [] e.k = "pi" -> mk_pi(abstract_at(e.d, l, i), abstract_at(e.b, l, i + 1))
      [] e.k = "macro" ->
            mk_macro(e.d, [j \in DOMAIN e.args |-> abstract_at(e.args[j], l, i)])
      [] OTHER -> e

\* abstract_locals(e, locals): locals[i] becomes bound variable n - i - 1
RECURSIVE abstract_locals(_, _)
abstract_locals(e, locals) ==
    IF locals = <<>> THEN e
    ELSE abstract_locals(abstract_at(e, Head(locals), Len(locals) - 1), Tail(locals))

(***************************************************************************)
(* Justifications.  A justification is the set of its leaves: the input    *)
(* constraints it rests on, <<"in", i>>, and the case-split assumptions,   *)
(* <<"asm", k>>.  Composition is union; the empty set is the justification *)
(* "none".                                                                 *)
(***************************************************************************)
mk_composite1(j1, j2) == j1 \cup j2
mk_assumption_justification(idx) == {<<"asm", idx>>}
mk_justification(i) == {<<"in", i>>}
depends_on(j, idx) == <<"asm", idx>> \in j

(***************************************************************************)
(* Substitutions: two finite maps, metavariable name -> (value,            *)
(* justification), one for term and one for universe metavariables.        *)
(***************************************************************************)
EmptyFn == [x \in {} |-> x]
empty_substitution == [e |-> EmptyFn, l |-> EmptyFn]

MapInsert(f, n, v) == [x \in (DOMAIN f) \cup {n} |-> IF x = n THEN v ELSE f[x]]
MapErase(f, n) == [x \in (DOMAIN f) \ {n} |-> f[x]]

is_assigned(s, n) == n \in DOMAIN s.e
is_assigned_lvl(s, n) == n \in DOMAIN s.l

\* substitution::assign for a term metavariable: the map entry is inserted
subst_assign(s, n, v, j) == [s EXCEPT !.e = MapInsert(s.e, n, [v |-> v, j |-> j])]
\* substitution::assign for a universe metavariable
subst_assign_lvl(s, n, v, j) == [s EXCEPT !.l = MapInsert(s.l, n, [v |-> v, j |-> j])]

\* What an instantiation that never returns is shown as.
Diverge == [k |-> "diverge"]

\* The number of nested metavariable unfoldings one instantiation may make.
InstFuel == 5

RECURSIVE inst_level(_, _, _)
inst_level(s, l, fuel) ==
    IF fuel = 0 THEN Diverge
    ELSE CASE l.k = "lmeta" ->
                 IF l.n \in DOMAIN s.l THEN inst_level(s, s.l[l.n].v, fuel - 1) ELSE l
           [] l.k = "lsucc" -> mk_succ(inst_level(s, l.l, fuel))
           [] l.k = "lmax" -> mk_max(inst_level(s, l.a, fuel), inst_level(s, l.b, fuel))
           [] OTHER -> l

\* The justifications of the universe assignments an instantiation applies.
RECURSIVE inst_level_jst(_, _, _)
inst_level_jst(s, l, fuel) ==
    IF fuel = 0 THEN {}
    ELSE CASE l.k = "lmeta" ->
                 IF l.n \in DOMAIN s.l
                 THEN s.l[l.n].j \cup inst_level_jst(s, s.l[l.n].v, fuel - 1)
                 ELSE {}
           [] l.k = "lsucc" -> inst_level_jst(s, l.l, fuel)
           [] l.k = "lmax" -> inst_level_jst(s, l.a, fuel) \cup inst_level_jst(s, l.b, fuel)
           [] OTHER -> {}

\* instantiate_metavars, the term: every assigned metavariable is replaced by
\* its (instantiated) value; an assigned head applied to arguments is
\* beta-reduced.
RECURSIVE inst_expr(_, _, _)
inst_expr(s, e, fuel) ==
    IF fuel = 0 THEN Diverge
    ELSE CASE e.k = "meta" ->
                 IF e.n \in DOMAIN s.e THEN inst_expr(s, s.e[e.n].v, fuel - 1) ELSE e
           [] e.k = "app" ->
                 LET fn == get_app_fn(e) IN
                 IF is_metavar(fn) /\ fn.n \in DOMAIN s.e
                 THEN inst_expr(s, apply_beta(s.e[fn.n].v, get_app_args(e)), fuel - 1)
                 ELSE mk_app1(inst_expr(s, e.f, fuel), inst_expr(s, e.a, fuel))
           [] e.k = "lam" -> mk_lambda(inst_expr(s, e.d, fuel), inst_expr(s, e.b, fuel))
           [] e.k = "pi" -> mk_pi(inst_expr(s, e.d, fuel), inst_expr(s, e.b, fuel))
           [] e.k = "sort" -> mk_sort(inst_level(s, e.l, fuel))
           [] e.k = "macro" ->
                 mk_macro(e.d, [i \in DOMAIN e.args |-> inst_expr(s, e.args[i], fuel)])
           [] OTHER -> e

\* instantiate_metavars, the justification: the composite of the
\* justifications of the assignments applied.
RECURSIVE inst_jst(_, _, _)
inst_jst(s, e, fuel) ==
    IF fuel = 0 THEN {}
    ELSE CASE e.k = "meta" ->
                 IF e.n \in DOMAIN s.e
                 THEN s.e[e.n].j \cup inst_jst(s, s.e[e.n].v, fuel - 1)
                 ELSE {}
           [] e.k = "app" ->
                 LET fn == get_app_fn(e) IN
                 IF is_metavar(fn) /\ fn.n \in DOMAIN s.e
                 THEN s.e[fn.n].j
                      \cup inst_jst(s, apply_beta(s.e[fn.n].v, get_app_args(e)), fuel - 1)
                 ELSE inst_jst(s, e.f, fuel) \cup inst_jst(s, e.a, fuel)
           [] e.k \in {"lam", "pi"} -> inst_jst(s, e.d, fuel) \cup inst_jst(s, e.b, fuel)
           [] e.k = "sort" -> inst_level_jst(s, e.l, fuel)
           [] e.k = "macro" ->
                 UNION {inst_jst(s, e.args[i], fuel) : i \in DOMAIN e.args}
           [] OTHER -> {}

\* Whether an instantiation result is that of a run that never returned.
RECURSIVE has_diverge(_)
has_diverge(e) ==
    CASE e.k = "diverge" -> TRUE
      [] e.k = "app" -> has_diverge(e.f) \/ has_diverge(e.a)
      [] e.k \in {"lam", "pi"} -> has_diverge(e.d) \/ has_diverge(e.b)
      [] e.k = "sort" -> has_diverge(e.l)
      [] e.k \in {"lsucc"} -> has_diverge(e.l)
      [] e.k = "lmax" -> has_diverge(e.a) \/ has_diverge(e.b)
      [] e.k = "macro" -> \E i \in DOMAIN e.args : has_diverge(e.args[i])
      [] OTHER -> FALSE

\* The term metavariables and the universe metavariables that occur in e
\* (the name sets instantiate_metavars collects from its result).
RECURSIVE expr_metas(_)
expr_metas(e) ==
    CASE e.k = "meta" -> {e.n}
      [] e.k = "app" -> expr_metas(e.f) \cup expr_metas(e.a)
      [] e.k \in {"lam", "pi"} -> expr_metas(e.d) \cup expr_metas(e.b)
      [] e.k = "macro" -> UNION {expr_metas(e.args[i]) : i \in DOMAIN e.args}
      [] OTHER -> {}

RECURSIVE expr_level_metas(_)
expr_level_metas(e) ==
    CASE e.k = "sort" -> level_metas(e.l)
      [] e.k = "app" -> expr_level_metas(e.f) \cup expr_level_metas(e.a)
      [] e.k \in {"lam", "pi"} -> expr_level_metas(e.d) \cup expr_level_metas(e.b)
      [] e.k = "macro" -> UNION {expr_level_metas(e.args[i]) : i \in DOMAIN e.args}
      [] OTHER -> {}

\* instantiate_metavars(e): (e', j', unassigned_levels, unassigned_exprs)
instantiate_metavars(s, e) ==
    LET r == inst_expr(s, e, InstFuel) IN
    [first |-> r, second |-> inst_jst(s, e, InstFuel),
     unassigned_lvls |-> IF has_diverge(r) THEN {} ELSE expr_level_metas(r),
     unassigned_exprs |-> IF has_diverge(r) THEN {} ELSE expr_metas(r)]

instantiate_metavars_lvl(s, l) ==
    LET r == inst_level(s, l, InstFuel) IN
    [first |-> r, second |-> inst_level_jst(s, l, InstFuel),
     unassigned_lvls |-> IF has_diverge(r) THEN {} ELSE level_metas(r)]

(***************************************************************************)
(* The simple unifier (unifier.cpp, lines 33-161).                         *)
(***************************************************************************)
\* Whether args[i] occurs among args[1..i-1]
SeenBefore(args, i) == \E p \in 1..(i - 1) : args[p] = args[i]

\* is_simple_meta(e): if e is ?m l_1 ... l_n with distinct locals l_i, the
\* metavariable and the locals; otherwise none
is_simple_meta(e) ==
    LET m == get_app_fn(e)
        args == get_app_args(e) IN
    IF ~is_metavar(m) THEN [some |-> FALSE]
    ELSE IF \E i \in DOMAIN args : ~is_local(args[i]) \/ SeenBefore(args, i)
    THEN [some |-> FALSE]
    ELSE [some |-> TRUE, m |-> m, args |-> args]

\* for_each over e with the visitor of occurs_context_check: TRUE iff the
\* visit sets failed.  The visit enters e only if it has metavariables or locals.
RECURSIVE occurs_context_failed(_, _, _)
occurs_context_failed(e, m, locals) ==
    IF is_local(e) /\ e \notin SeqToSet(locals) THEN TRUE
    ELSE IF is_metavar(e) /\ e = m THEN TRUE
    ELSE IF ~(has_metavar(e) \/ has_local(e)) THEN FALSE
    ELSE CASE e.k \in {"local", "meta"} -> occurs_context_failed(e.t, m, locals)
           [] e.k = "app" -> occurs_context_failed(e.f, m, locals)
                             \/ occurs_context_failed(e.a, m, locals)
           [] e.k \in {"lam", "pi"} -> occurs_context_failed(e.d, m, locals)
                                       \/ occurs_context_failed(e.b, m, locals)
           [] e.k = "macro" ->
                 \E i \in DOMAIN e.args : occurs_context_failed(e.args[i], m, locals)
           [] OTHER -> FALSE

\* occurs_context_check with the scope taken from e itself instead of the
\* pattern's arguments.
occurs_context_check_no_scope(e, m, locals) == ~occurs_context_failed(e, m, <<e>>)

occurs_context_check(e, m, locals) == ~occurs_context_failed(e, m, locals)

\* lambda_abstract_locals(e, locals): fun (locals), e
RECURSIVE wrap_lambdas(_, _)
wrap_lambdas(v, locals) ==
    IF locals = <<>> THEN v
    ELSE wrap_lambdas(mk_lambda(mlocal_type(locals[Len(locals)]), v),
                      SubSeq(locals, 1, Len(locals) - 1))

lambda_abstract_locals(e, locals) == wrap_lambdas(abstract_locals(e, locals), locals)

unify_simple_core(s, lhs, rhs, j) ==
    LET m == is_simple_meta(lhs) IN
    IF ~m.some \/ (is_meta(rhs) /\ get_app_fn(rhs) = m.m)
    THEN [first |-> "Unsupported", second |-> s]
    ELSE IF ~occurs_context_check(rhs, m.m, m.args)
    THEN [first |-> "Failed", second |-> s]
    ELSE [first |-> "Solved",
          second |-> subst_assign(s, mlocal_name(m.m), lambda_abstract_locals(rhs, m.args), j)]

unify_simple(s, lhs, rhs, j) ==
    IF lhs = rhs THEN [first |-> "Solved", second |-> s]
    ELSE IF ~has_metavar(lhs) /\ ~has_metavar(rhs) THEN [first |-> "Failed", second |-> s]
    ELSE IF is_meta(lhs) THEN unify_simple_core(s, lhs, rhs, j)
    ELSE IF is_meta(rhs) THEN unify_simple_core(s, rhs, lhs, j)
    ELSE [first |-> "Unsupported", second |-> s]

\* occurs(m, e) for levels: TRUE iff m occurs in e
RECURSIVE occurs(_, _)
occurs(m, e) ==
    IF e = m THEN TRUE
    ELSE IF ~has_meta(e) THEN FALSE
    ELSE CASE e.k = "lsucc" -> occurs(m, e.l)
           [] e.k = "lmax" -> occurs(m, e.a) \/ occurs(m, e.b)
           [] OTHER -> FALSE

unify_simple_core_lvl(s, lhs, rhs, j) ==
    IF occurs(lhs, rhs)
    THEN IF is_succ(rhs) THEN [first |-> "Failed", second |-> s]
         ELSE [first |-> "Unsupported", second |-> s]
    ELSE [first |-> "Solved", second |-> subst_assign_lvl(s, meta_id(lhs), rhs, j)]

RECURSIVE unify_simple_lvl(_, _, _, _)
unify_simple_lvl(s, lhs, rhs, j) ==
    IF lhs = rhs THEN [first |-> "Solved", second |-> s]
    ELSE IF ~has_meta(lhs) /\ ~has_meta(rhs) THEN [first |-> "Failed", second |-> s]
    ELSE IF is_meta_lvl(lhs) THEN unify_simple_core_lvl(s, lhs, rhs, j)
    ELSE IF is_meta_lvl(rhs) THEN unify_simple_core_lvl(s, rhs, lhs, j)
    ELSE IF is_succ(lhs) /\ is_succ(rhs)
    THEN unify_simple_lvl(s, succ_of(lhs), succ_of(rhs), j)
    ELSE [first |-> "Unsupported", second |-> s]

\* Constraints
mk_eq_cnstr(lhs, rhs, j) == [k |-> "eq", lhs |-> lhs, rhs |-> rhs, j |-> j]
mk_level_eq_cnstr(lhs, rhs, j) == [k |-> "leq", lhs |-> lhs, rhs |-> rhs, j |-> j]
mk_choice_cnstr(e, fn, delayed, j) ==
    [k |-> "choice", e |-> e, fn |-> fn, delayed |-> delayed, j |-> j]
is_eq_cnstr(c) == c.k = "eq"
is_level_eq_cnstr(c) == c.k = "leq"
is_choice_cnstr(c) == c.k = "choice"

unify_simple_cnstr(s, c) ==
    IF is_eq_cnstr(c) THEN unify_simple(s, c.lhs, c.rhs, c.j)
    ELSE IF is_level_eq_cnstr(c) THEN unify_simple_lvl(s, c.lhs, c.rhs, c.j)
    ELSE [first |-> "Unsupported", second |-> s]

(***************************************************************************)
(* The environment and the expressions the model draws its inputs from.    *)
(*   TyA, TyB : Type      ConC, ConD : TyA      ConB : TyB                 *)
(*   FunF : TyA -> TyA    FunG : TyA -> TyA -> TyA                         *)
(*   LocX, LocY : TyA (local constants)                                    *)
(*   MetaM, MetaN : TyA   MetaH : TyA -> TyA   MetaK : TyA -> TyA -> TyA   *)
(***************************************************************************)
Sort1 == mk_sort(mk_succ(mk_level_zero))
TyA == mk_constant(1)
TyB == mk_constant(2)
ConC == mk_constant(3)
ConD == mk_constant(4)
ConB == mk_constant(5)
FunF == mk_constant(6)
FunG == mk_constant(7)
Arrow(a, b) == mk_pi(a, b)
LocX == mk_local(11, TyA)
LocY == mk_local(12, TyA)
MetaM == mk_metavar(21, TyA)
MetaN == mk_metavar(22, TyA)
MetaH == mk_metavar(23, Arrow(TyA, TyA))
MetaK == mk_metavar(24, Arrow(TyA, Arrow(TyA, TyA)))

\* The declared type of a constant of the environment.
const_type(n) ==
    CASE n \in {1, 2} -> Sort1
      [] n \in {3, 4} -> TyA
      [] n = 5 -> TyB
      [] n = 6 -> Arrow(TyA, TyA)
      [] n = 7 -> Arrow(TyA, Arrow(TyA, TyA))

(***************************************************************************)
(* The kernel type checker the unifier consumes: whnf, infer and           *)
(* is_def_eq.  It never reads the unifier's state; the constraints it      *)
(* passes to its callback are returned in emission order (cs), and the     *)
(* caller runs the callback on them.                                       *)
(***************************************************************************)
\* Names of the local constants and universe metavariables the type checker's own
\* name generator makes.
TcNameBase == 900

\* whnf: head beta-reduction (the environment has no definitions to unfold)
RECURSIVE whnf(_)
whnf(e) ==
    IF is_app(e) /\ is_lambda(get_app_fn(e))
    THEN whnf(apply_beta(get_app_fn(e), get_app_args(e)))
    ELSE e

TcOk == [ok |-> TRUE, cs |-> <<>>]
TcNo == [ok |-> FALSE, cs |-> <<>>]

\* is_def_eq on levels
tc_is_def_eq_lvl(l1, l2, j) ==
    IF l1 = l2 \/ normalize(l1) = normalize(l2) THEN TcOk
    ELSE IF has_meta(l1) \/ has_meta(l2)
    THEN [ok |-> TRUE, cs |-> <<mk_level_eq_cnstr(l1, l2, j)>>]
    ELSE TcNo

RECURSIVE tc_is_def_eq(_, _, _, _)
RECURSIVE tc_is_def_eq_args(_, _, _, _)

\* is_def_eq(t, s, j); n counts the local constants made so far
tc_is_def_eq(t, s, j, n) ==
    IF t = s THEN TcOk
    ELSE IF is_meta(t) \/ is_meta(s)
    THEN [ok |-> TRUE, cs |-> <<mk_eq_cnstr(t, s, j)>>]
    ELSE IF t.k = s.k /\ is_binding(t)
    THEN LET dr == tc_is_def_eq(t.d, s.d, j, n) IN
         IF ~dr.ok THEN dr
         ELSE LET l == mk_local(TcNameBase + n, s.d)
                  br == tc_is_def_eq(instantiate(t.b, l), instantiate(s.b, l), j, n + 1) IN
              [ok |-> br.ok, cs |-> dr.cs \o br.cs]
    ELSE IF is_sort(t) /\ is_sort(s) THEN tc_is_def_eq_lvl(t.l, s.l, j)
    ELSE LET tn == whnf(t)
             sn == whnf(s) IN
         IF tn # t \/ sn # s THEN tc_is_def_eq(tn, sn, j, n)
         ELSE IF is_app(t) /\ is_app(s)
         THEN LET hr == tc_is_def_eq(get_app_fn(t), get_app_fn(s), j, n) IN
              IF ~hr.ok \/ Len(get_app_args(t)) # Len(get_app_args(s))
              THEN [ok |-> FALSE, cs |-> hr.cs]
              ELSE LET ar == tc_is_def_eq_args(get_app_args(t), get_app_args(s), j, n) IN
                   [ok |-> ar.ok, cs |-> hr.cs \o ar.cs]
         ELSE TcNo

\* the arguments of two applications, left to right, stopping at the first failure
tc_is_def_eq_args(ts, ss, j, n) ==
    IF ts = <<>> THEN TcOk
    ELSE LET r == tc_is_def_eq(Head(ts), Head(ss), j, n) IN
         IF ~r.ok THEN r
         ELSE LET rest == tc_is_def_eq_args(Tail(ts), Tail(ss), j, n) IN
              [ok |-> rest.ok, cs |-> r.cs \o rest.cs]

TcErr == [err |-> TRUE, t |-> mk_var(0), cs |-> <<>>]
TcType(t) == [err |-> FALSE, t |-> t, cs |-> <<>>]

\* ensure_sort: the level of a type's sort; a metavariable-headed type is
\* constrained to be a sort of a new universe metavariable
tc_ensure_sort(r, n) ==
    IF r.err THEN [err |-> TRUE, l |-> mk_level_zero, cs |-> r.cs]
    ELSE LET t == whnf(r.t) IN
         IF is_sort(t) THEN [err |-> FALSE, l |-> t.l, cs |-> r.cs]
         ELSE IF is_meta(t)
         THEN [err |-> FALSE, l |-> mk_meta_univ(TcNameBase + n),
               cs |-> Append(r.cs, mk_eq_cnstr(t, mk_sort(mk_meta_univ(TcNameBase + n)), {}))]
         ELSE [err |-> TRUE, l |-> mk_level_zero, cs |-> r.cs]

\* The type of a macro application (every macro of the model builds a TyA).
macro_type(d) == mk_constant(1)

\* infer(e), without checking the arguments of applications; err: the kernel throws
RECURSIVE tc_infer(_, _)
tc_infer(e, n) ==
    CASE e.k \in {"local", "meta"} -> TcType(e.t)
      [] e.k = "const" -> TcType(const_type(e.n))
      [] e.k = "sort" -> TcType(mk_sort(mk_succ(e.l)))
      [] e.k = "macro" -> TcType(macro_type(e.d))
      [] e.k = "lam" ->
            LET l == mk_local(TcNameBase + n, e.d)
                r == tc_infer(instantiate(e.b, l), n + 1) IN
            IF r.err THEN r
            ELSE [err |-> FALSE, t |-> mk_pi(e.d, abstract_at(r.t, l, 0)), cs |-> r.cs]
      [] e.k = "pi" ->
            LET dr == tc_ensure_sort(tc_infer(e.d, n), n)
                l == mk_local(TcNameBase + n, e.d)
                br == tc_ensure_sort(tc_infer(instantiate(e.b, l), n + 1), n + 1) IN
            IF dr.err \/ br.err THEN [TcErr EXCEPT !.cs = dr.cs \o br.cs]
            ELSE [err |-> FALSE, t |-> mk_sort(normalize(mk_max(dr.l, br.l))),
                  cs |-> dr.cs \o br.cs]
      [] e.k = "app" ->
            LET fr == tc_infer(e.f, n) IN
            IF fr.err THEN fr
            ELSE LET ft == whnf(fr.t) IN
                 IF is_pi(ft)
                 THEN [err |-> FALSE, t |-> instantiate(ft.b, e.a), cs |-> fr.cs]
                 ELSE [TcErr EXCEPT !.cs = fr.cs]
      [] OTHER -> TcErr

(***************************************************************************)
(* The engine unifier_fn (unifier.cpp, lines 163-962).  Its methods are    *)
(* operators on a record u of its fields:                                  *)
(*   subst, cnstrs (cidx -> constraint), mvar_occs, mlvl_occs, next_cidx,  *)
(*   next_assumption_idx, num_steps, first, case_splits, conflict, ngen,   *)
(*   tc_saves (open savepoints of m_tc), use_exception, max_steps, plugin. *)
(* A method's return value is left in ret (st for a status); exc is the    *)
(* exception in flight, "none" when there is none.                         *)
(***************************************************************************)
g_first_delayed == 2 ^ 28
g_first_very_delayed == 2 ^ 30

\* The first name the engine's name generator m_ngen hands out.
NgenBase == 100

\* m_conflict is an optional: some says whether it holds a value, j is what
\* its storage holds.  Emptying the optional leaves the storage as it was.
NoConflict == [some |-> FALSE, j |-> {}]

in_conflict(u) == u.conflict.some
set_conflict(u, j) == [u EXCEPT !.conflict = [some |-> TRUE, j |-> j]]
update_conflict(u, j) == [u EXCEPT !.conflict = [some |-> TRUE, j |-> j]]
reset_conflict(u) == [u EXCEPT !.conflict.some = FALSE]

Ret(u, b) == [u EXCEPT !.ret = b]
Raised(u) == u.exc # "none"
Throw(u, e) == [u EXCEPT !.exc = e]

\* Another thread requests an interrupt while a method of the engine runs:
\* it sets the flag of the engine's thread after interrupt_after more polls
\* of the flag have passed (0: no request during this call).  requests
\* counts the requests made.
request_after_poll(u) ==
    IF u.interrupt_after = 1
    THEN [u EXCEPT !.interrupt = TRUE, !.interrupt_after = 0, !.requests = @ + 1]
    ELSE IF u.interrupt_after > 1 THEN [u EXCEPT !.interrupt_after = @ - 1]
    ELSE u

\* check_interrupted() (line 297): the thread's interrupt flag is polled; when
\* it is set, it is cleared and the interrupted exception is thrown
check_interrupted(u) ==
    IF u.interrupt THEN Throw([u EXCEPT !.interrupt = FALSE], "interrupted")
    ELSE request_after_poll(u)

\* check_system(), lines 298-302: u is the engine after check_interrupted()
check_system_steps(u) ==
    IF Raised(u) THEN u
    ELSE IF u.num_steps > u.max_steps THEN Throw(u, "step_limit")
    ELSE [u EXCEPT !.num_steps = @ + 1]

check_system(u) == check_system_steps(check_interrupted(u))

\* Given type (Pi ctx, r), return (Pi ctx, new_range)
RECURSIVE replace_range(_, _)
replace_range(type, new_range) ==
    IF is_pi(type) THEN mk_pi(type.d, replace_range(type.b, new_range))
    ELSE new_range

\* The number of nested Pi's of type
RECURSIVE get_arity(_)
get_arity(type) == IF is_pi(type) THEN 1 + get_arity(type.b) ELSE 0

\* The term (f #n-1 ... #0)
RECURSIVE mk_app_vars(_, _)
mk_app_vars(f, n) == IF n = 0 THEN f ELSE mk_app_vars(mk_app1(f, mk_var(n - 1)), n - 1)

\* mk_aux_type_metavar_for(t) with the generator at g: two names are taken
mk_aux_type_metavar_for(t, g) ==
    mk_metavar(g + 1, replace_range(t, mk_sort(mk_meta_univ(g))))

\* mk_aux_metavar_for(t) with the generator at g: three names are taken
mk_aux_metavar_for(t, g) ==
    mk_metavar(g + 2,
               replace_range(t, mk_app_vars(mk_aux_type_metavar_for(t, g), get_arity(t))))

\* Given t = (Pi ctx, B), return (fun ctx, v)
RECURSIVE mk_lambda_for(_, _)
mk_lambda_for(t, v) ==
    IF is_pi(t) THEN mk_lambda(t.d, mk_lambda_for(t.b, v)) ELSE v

\* add_occ: the index entry m -> cidx
add_occ(map, m, cidx) ==
    LET old == IF m \in DOMAIN map THEN map[m] ELSE {} IN
    IF cidx \notin old THEN MapInsert(map, m, old \cup {cidx}) ELSE map

RECURSIVE add_occ_all(_, _, _)
add_occ_all(map, ms, cidx) ==
    IF ms = {} THEN map
    ELSE LET m == CHOOSE x \in ms : \A y \in ms : x <= y IN
         add_occ_all(add_occ(map, m, cidx), ms \ {m}, cidx)

add_occs(u, cidx, mlvl_occs, mvar_occs) ==
    [u EXCEPT !.mlvl_occs = add_occ_all(@, mlvl_occs, cidx),
              !.mvar_occs = add_occ_all(@, mvar_occs, cidx)]

\* add_cnstr(c, mlvl_occs, mvar_occs, start_cidx); a null name set is {}
\* (issued is the history of the ids given to constraints: the id, the value
\* of m_next_cidx and of m_num_steps at that moment, and whether a case split
\* had been restored earlier in the running method)
add_cnstr(u, c, mlvl_occs, mvar_occs, start_cidx) ==
    LET cidx == u.next_cidx + start_cidx
        u1 == [u EXCEPT !.cnstrs = MapInsert(@, cidx, c)]
        u2 == add_occs(u1, cidx, mlvl_occs, mvar_occs) IN
    [u2 EXCEPT !.next_cidx = @ + 1,
               !.issued = @ \cup {[id |-> cidx, next_cidx |-> u.next_cidx,
                                    steps |-> u.num_steps,
                                    after_restore |-> u.restores # {}]}]

add_delayed_cnstr(u, c, mlvl_occs, mvar_occs) ==
    add_cnstr(u, c, mlvl_occs, mvar_occs, g_first_delayed)

add_very_delayed_cnstr(u, c, mlvl_occs, mvar_occs) ==
    add_cnstr(u, c, mlvl_occs, mvar_occs, g_first_very_delayed)

SetMin(S) == CHOOSE x \in S : \A y \in S : x <= y

\* A method's operators are split where the code binds a local variable: the
\* value bound is the operator's first argument, and an engine that arrives
\* with an exception in flight is handed on unchanged.
RECURSIVE process_constraint(_, _)
RECURSIVE process_constraint_cidx(_, _)
RECURSIVE process_eq_constraint(_, _)
RECURSIVE process_level_eq_constraint(_, _)
RECURSIVE process_metavar_eq(_, _, _, _)
RECURSIVE process_metavar_eq_lvl(_, _, _, _)
RECURSIVE assign(_, _, _, _)
RECURSIVE assign_lvl(_, _, _, _)
RECURSIVE tc_callback(_, _)
RECURSIVE for_each_cidx(_, _)

\* The callback m_tc was built with, run on the constraints the type checker
\* emitted during one call: process_constraint(c), its result dropped.
tc_callback(u, cs) ==
    IF cs = <<>> \/ Raised(u) THEN u
    ELSE tc_callback(process_constraint(u, Head(cs)), Tail(cs))

\* s.for_each(process_constraint_cidx): the indices in ascending order
for_each_cidx(u, s) ==
    IF s = {} \/ Raised(u) THEN u
    ELSE for_each_cidx(process_constraint_cidx(u, SetMin(s)), s \ {SetMin(s)})

\* wakes is the history of the ids process_constraint_cidx dispatched during
\* the running method, in order.  The history of the wake-ups of one assign
\* call, which began with the engine before: how many of the ids in s were
\* dispatched during the call, whether they were in ascending order, whether
\* the call ended in conflict, the ids in s that were queued and not dispatched
\* and whether their constraints are still queued as they were
log_wake_up(u, before, s) ==
    [u EXCEPT !.wake_ups = @ \cup
        {[n |-> Cardinality({i \in (Len(before.wakes) + 1)..Len(u.wakes) : u.wakes[i] \in s}),
          ascending |-> \A i, k \in (Len(before.wakes) + 1)..Len(u.wakes) :
                            (i < k /\ u.wakes[i] \in s /\ u.wakes[k] \in s)
                                => u.wakes[i] < u.wakes[k],
          conflict |-> in_conflict(u),
          skipped |-> {i \in s \cap DOMAIN before.cnstrs :
                          \A k \in (Len(before.wakes) + 1)..Len(u.wakes) : u.wakes[k] # i},
          kept |-> \A i \in s \cap DOMAIN before.cnstrs :
                      (\A k \in (Len(before.wakes) + 1)..Len(u.wakes) : u.wakes[k] # i)
                          => (i \in DOMAIN u.cnstrs /\ u.cnstrs[i] = before.cnstrs[i])]}]

\* return !in_conflict();
return_not_in_conflict(u) == IF Raised(u) THEN u ELSE Ret(u, ~in_conflict(u))

\* assign(m, v, j), lines 462-472: u is the engine after is_def_eq, ok its result
\* (mismatch is the history of the returns at line 461 on a failed is_def_eq
\* with no conflict set)
assign_occs(u, m, ok) ==
    IF Raised(u) THEN u
    ELSE IF ~ok THEN Ret([u EXCEPT !.mismatch = @ \/ ~in_conflict(u)], FALSE)
    ELSE IF mlocal_name(m) \in DOMAIN u.mvar_occs
    THEN return_not_in_conflict(
             log_wake_up(for_each_cidx([u EXCEPT !.mvar_occs = MapErase(@, mlocal_name(m))],
                                       u.mvar_occs[mlocal_name(m)]),
                         u, u.mvar_occs[mlocal_name(m)]))
    ELSE Ret(u, TRUE)

\* assign(m, v, j), line 460: u is the engine after infer(v), v_type its result
assign_is_def_eq(u, m, j, v_type, eq) ==
    IF Raised(u) THEN u
    ELSE IF v_type.err THEN Throw(u, "kernel_exception")
    ELSE IF in_conflict(u) THEN Ret(u, FALSE)
    ELSE assign_occs(tc_callback(u, eq.cs), m, eq.ok)

\* assign(m, v, j), lines 458-459: u is the engine after m_subst.assign
assign_infer(u, m, j, v_type) ==
    assign_is_def_eq(tc_callback(u, v_type.cs), m, j, v_type,
                     tc_is_def_eq(mlocal_type(m), v_type.t, j, 0))

\* assign(m, v, j) for a term metavariable (reassigned is the history of the
\* assertion at the call sites: m was assigned already)
assign(u, m, v, j) ==
    assign_infer([u EXCEPT !.subst = subst_assign(@, mlocal_name(m), v, j),
                           !.reassigned = @ \/ is_assigned(u.subst, mlocal_name(m))],
                 m, j, tc_infer(v, 0))

\* assign(m, v, j) for a universe metavariable, lines 482-492: u is the engine
\* after m_subst.assign
assign_lvl_occs(u, m) ==
    IF meta_id(m) \in DOMAIN u.mlvl_occs
    THEN return_not_in_conflict(
             log_wake_up(for_each_cidx([u EXCEPT !.mlvl_occs = MapErase(@, meta_id(m))],
                                       u.mlvl_occs[meta_id(m)]),
                         u, u.mlvl_occs[meta_id(m)]))
    ELSE Ret(u, TRUE)

\* assign(m, v, j) for a universe metavariable
assign_lvl(u, m, v, j) ==
    assign_lvl_occs([u EXCEPT !.subst = subst_assign_lvl(@, meta_id(m), v, j),
                              !.reassigned = @ \/ is_assigned_lvl(u.subst, meta_id(m))], m)

St(u, st) == [u EXCEPT !.st = st]

\* if (assign(...)) return Assigned; else return Failed;
assign_status(u) ==
    IF Raised(u) THEN u ELSE St(u, IF u.ret THEN "Assigned" ELSE "Failed")

\* process_metavar_eq(lhs, rhs, j), lines 507-518: m is is_simple_meta(lhs)
process_metavar_eq_simple(u, m, rhs, j) ==
    IF ~m.some \/ (is_meta(rhs) /\ get_app_fn(rhs) = m.m) THEN St(u, "Continue")
    ELSE IF ~occurs_context_check(rhs, m.m, m.args) THEN St(set_conflict(u, j), "Failed")
    ELSE assign_status(assign(u, m.m, lambda_abstract_locals(rhs, m.args), j))

\* process_metavar_eq(lhs, rhs, j) for expressions: Assigned, Failed or Continue
process_metavar_eq(u, lhs, rhs, j) ==
    IF ~is_meta(lhs) THEN St(u, "Continue")
    ELSE process_metavar_eq_simple(u, is_simple_meta(lhs), rhs, j)

\* The queue band a constraint lhs =?= rhs (instantiated, in whnf) goes to
eq_cnstr_band(lhs, rhs) ==
    IF is_meta(lhs) /\ is_meta(rhs) THEN g_first_very_delayed
    ELSE IF is_meta(lhs) \/ is_meta(rhs) THEN g_first_delayed
    ELSE 0

\* process_eq_constraint(c), lines 554-559: u is the engine after is_def_eq
process_eq_constraint_retried(u, ok, new_jst) ==
    IF Raised(u) THEN u
    ELSE IF ok THEN Ret(u, TRUE)
    ELSE Ret(set_conflict(u, new_jst), FALSE)

\* process_eq_constraint(c), line 554
process_eq_constraint_retry(u, eq, new_jst) ==
    process_eq_constraint_retried(tc_callback(u, eq.cs), eq.ok, new_jst)

\* process_eq_constraint(c), lines 551-572: lhs and rhs are in whnf
process_eq_constraint_whnf(u, c, lhs, rhs, new_jst, unassigned_lvls, unassigned_exprs) ==
    IF lhs # c.lhs \/ rhs # c.rhs
    THEN process_eq_constraint_retry(u, tc_is_def_eq(lhs, rhs, new_jst, 0), new_jst)
    ELSE Ret(add_cnstr(u, c, unassigned_lvls, unassigned_exprs, eq_cnstr_band(lhs, rhs)),
             TRUE)

\* process_eq_constraint(c), lines 545-549: u is the engine after the second
\* process_metavar_eq
process_eq_constraint_st2(u, c, lhs, rhs, new_jst, unassigned_lvls, unassigned_exprs) ==
    IF Raised(u) THEN u
    ELSE IF u.st # "Continue" THEN Ret(u, u.st = "Assigned")
    ELSE process_eq_constraint_whnf(u, c, whnf(lhs), whnf(rhs), new_jst,
                                    unassigned_lvls, unassigned_exprs)

\* process_eq_constraint(c), lines 543-544: u is the engine after the first
\* process_metavar_eq
process_eq_constraint_st1(u, c, lhs, rhs, new_jst, unassigned_lvls, unassigned_exprs) ==
    IF Raised(u) THEN u
    ELSE IF u.st # "Continue" THEN Ret(u, u.st = "Assigned")
    ELSE process_eq_constraint_st2(process_metavar_eq(u, rhs, lhs, new_jst), c, lhs, rhs,
                                   new_jst, unassigned_lvls, unassigned_exprs)

\* process_eq_constraint(c), lines 531-542: lhs and rhs are instantiated
process_eq_constraint_inst(u, c, lhs, rhs, new_jst, unassigned_lvls, unassigned_exprs) ==
    IF has_diverge(lhs) \/ has_diverge(rhs) THEN Throw(u, "no_return")
    ELSE IF lhs = rhs THEN Ret(u, TRUE)
    ELSE IF ~has_metavar(lhs) /\ ~has_metavar(rhs) THEN Ret(set_conflict(u, new_jst), FALSE)
    ELSE process_eq_constraint_st1(process_metavar_eq(u, lhs, rhs, new_jst), c, lhs, rhs,
                                   new_jst, unassigned_lvls, unassigned_exprs)

\* process_eq_constraint(c), lines 528-535: lhs_jst and rhs_jst are known
process_eq_constraint_core(u, c, lhs_jst, rhs_jst) ==
    process_eq_constraint_inst(u, c, lhs_jst.first, rhs_jst.first,
        mk_composite1(mk_composite1(c.j, lhs_jst.second), rhs_jst.second),
        lhs_jst.unassigned_lvls \cup rhs_jst.unassigned_lvls,
        lhs_jst.unassigned_exprs \cup rhs_jst.unassigned_exprs)

\* process_eq_constraint with the two sides taken as they are in c, assigned
\* metavariables not instantiated
process_eq_constraint_uninstantiated(u, c) ==
    process_eq_constraint_core(u, c,
        [first |-> c.lhs, second |-> {}, unassigned_lvls |-> expr_level_metas(c.lhs),
         unassigned_exprs |-> expr_metas(c.lhs)],
        [first |-> c.rhs, second |-> {}, unassigned_lvls |-> expr_level_metas(c.rhs),
         unassigned_exprs |-> expr_metas(c.rhs)])

process_eq_constraint(u, c) ==
    process_eq_constraint_core(u, c, instantiate_metavars(u.subst, c.lhs),
                                     instantiate_metavars(u.subst, c.rhs))

\* process_metavar_eq(lhs, rhs, j) for levels
process_metavar_eq_lvl(u, lhs, rhs, j) ==
    IF ~is_meta_lvl(lhs) THEN St(u, "Continue")
    ELSE IF occurs(lhs, rhs)
    THEN IF is_succ(rhs) THEN St(u, "Failed") ELSE St(u, "Continue")
    ELSE assign_status(assign_lvl(u, lhs, rhs, j))

\* eliminate outermost succs
RECURSIVE strip_succs(_, _)
strip_succs(lhs, rhs) ==
    IF is_succ(lhs) /\ is_succ(rhs) THEN strip_succs(succ_of(lhs), succ_of(rhs))
    ELSE <<lhs, rhs>>

\* process_level_eq_constraint(c), lines 630-639: u is the engine after the
\* second process_metavar_eq
process_level_eq_constraint_st2(u, c, lhs, rhs, new_jst, unassigned_lvls) ==
    IF Raised(u) THEN u
    ELSE IF u.st # "Continue" THEN Ret(u, u.st = "Assigned")
    ELSE IF lhs # c.lhs \/ rhs # c.rhs
    THEN Ret(add_delayed_cnstr(u, mk_level_eq_cnstr(lhs, rhs, new_jst), unassigned_lvls, {}),
             TRUE)
    ELSE Ret(add_delayed_cnstr(u, c, unassigned_lvls, {}), TRUE)

\* process_level_eq_constraint(c), lines 628-629: u is the engine after the
\* first process_metavar_eq
process_level_eq_constraint_st1(u, c, lhs, rhs, new_jst, unassigned_lvls) ==
    IF Raised(u) THEN u
    ELSE IF u.st # "Continue" THEN Ret(u, u.st = "Assigned")
    ELSE process_level_eq_constraint_st2(process_metavar_eq_lvl(u, rhs, lhs, new_jst), c,
                                         lhs, rhs, new_jst, unassigned_lvls)

\* process_level_eq_constraint(c), lines 618-627: lhs and rhs are normalized and
\* stripped of their outermost succs
process_level_eq_constraint_norm(u, c, lhs, rhs, new_jst, unassigned_lvls) ==
    IF lhs = rhs THEN Ret(u, TRUE)
    ELSE IF ~has_meta(lhs) /\ ~has_meta(rhs) THEN Ret(set_conflict(u, new_jst), FALSE)
    ELSE process_level_eq_constraint_st1(process_metavar_eq_lvl(u, lhs, rhs, new_jst), c,
                                         lhs, rhs, new_jst, unassigned_lvls)

\* process_level_eq_constraint(c), lines 613-616: stripped is the pair (lhs, rhs)
process_level_eq_constraint_stripped(u, c, stripped, new_jst, unassigned_lvls) ==
    process_level_eq_constraint_norm(u, c, stripped[1], stripped[2], new_jst, unassigned_lvls)

\* process_level_eq_constraint(c), lines 606-621: lhs_jst and rhs_jst are known
process_level_eq_constraint_core(u, c, lhs_jst, rhs_jst) ==
    IF has_diverge(lhs_jst.first) \/ has_diverge(rhs_jst.first) THEN Throw(u, "no_return")
    ELSE process_level_eq_constraint_stripped(u, c,
             strip_succs(normalize(lhs_jst.first), normalize(rhs_jst.first)),
             mk_composite1(mk_composite1(c.j, lhs_jst.second), rhs_jst.second),
             lhs_jst.unassigned_lvls \cup rhs_jst.unassigned_lvls)

process_level_eq_constraint(u, c) ==
    process_level_eq_constraint_core(u, c, instantiate_metavars_lvl(u.subst, c.lhs),
                                           instantiate_metavars_lvl(u.subst, c.rhs))

\* process_constraint(c), lines 651-663: u is the engine after check_system
process_constraint_kind(u, c) ==
    IF Raised(u) THEN u
    ELSE CASE c.k = "choice" ->
                  IF c.delayed THEN Ret(add_very_delayed_cnstr(u, c, {}, {}), TRUE)
                  ELSE Ret(add_cnstr(u, c, {}, {}, 0), TRUE)
           [] c.k = "eq" -> process_eq_constraint(u, c)
           [] c.k = "leq" -> process_level_eq_constraint(u, c)

\* What process_constraint and process_constraint_cidx leave alone while the
\* engine is in conflict: m_subst, m_cnstrs, the occurrence indices,
\* m_next_cidx and m_num_steps
dispatch_frame(u) ==
    [subst |-> u.subst, cnstrs |-> u.cnstrs, mvar_occs |-> u.mvar_occs,
     mlvl_occs |-> u.mlvl_occs, next_cidx |-> u.next_cidx, num_steps |-> u.num_steps]

\* The history of the calls of process_constraint and process_constraint_cidx
\* that began with the engine before: whether the engine was in conflict,
\* whether the constraint was in the queue (process_constraint_cidx), what the
\* call returned, whether it left the frame as it was, and how many
\* savepoints were open and how many case splits were on the stack
log_dispatch(u, before, method, queued) ==
    IF Raised(before) THEN u
    ELSE [u EXCEPT !.dispatches = @ \cup
             {[method |-> method, conflict |-> in_conflict(before), queued |-> queued,
               returned |-> ~Raised(u), ret |-> u.ret,
               same |-> dispatch_frame(u) = dispatch_frame(before),
               saves |-> before.tc_saves, splits |-> Len(before.case_splits)]}]

\* process_constraint(c), lines 647-663
process_constraint_core(u, c) ==
    IF Raised(u) THEN u
    ELSE IF in_conflict(u) THEN Ret(u, FALSE)
    ELSE process_constraint_kind(check_system(u), c)

process_constraint(u, c) ==
    log_dispatch(process_constraint_core(u, c), u, "process_constraint", TRUE)

\* process_constraint_cidx without the test of line 670
process_constraint_cidx_unguarded(u, cidx) ==
    IF Raised(u) THEN u
    ELSE IF cidx \in DOMAIN u.cnstrs
    THEN process_constraint([u EXCEPT !.cnstrs = MapErase(@, cidx),
                                      !.wakes = Append(@, cidx)], u.cnstrs[cidx])
    ELSE Ret(u, TRUE)

\* process_constraint_cidx(cidx), lines 669-679
process_constraint_cidx_core(u, cidx) ==
    IF Raised(u) THEN u
    ELSE IF in_conflict(u) THEN Ret(u, FALSE)
    ELSE IF cidx \in DOMAIN u.cnstrs
    THEN process_constraint([u EXCEPT !.cnstrs = MapErase(@, cidx),
                                      !.wakes = Append(@, cidx)], u.cnstrs[cidx])
    ELSE Ret(u, TRUE)

process_constraint_cidx(u, cidx) ==
    log_dispatch(process_constraint_cidx_core(u, cidx), u, "process_constraint_cidx",
                 cidx \in DOMAIN u.cnstrs)

\* *m_conflict.  Reading it while there is no conflict reads an optional
\* that holds no value: the engine aborts (ub = "crash", handled where the
\* read happens), or the read yields the justification the optional held
\* before it was emptied (ub = "stale"), a justification with no assumption
\* (ub = "none") or one that depends on every assumption made so far
\* (ub = "all").
conflict_value(u) ==
    IF u.conflict.some THEN u.conflict.j
    ELSE IF u.ub = "stale" THEN u.conflict.j
    ELSE IF u.ub = "all" THEN {<<"asm", k>> : k \in 0..(u.next_assumption_idx - 1)}
    ELSE {}

\* The effect of reading *m_conflict on the engine's history
deref_conflict(u) ==
    IF u.conflict.some THEN u
    ELSE IF u.ub = "crash" THEN [u EXCEPT !.ub_hit = TRUE, !.exc = "crash"]
    ELSE [u EXCEPT !.ub_hit = TRUE]

\* The engine's substitution, constraint queue and occurrence indices
engine_snapshot(u) ==
    [subst |-> u.subst, cnstrs |-> u.cnstrs,
     mvar_occs |-> u.mvar_occs, mlvl_occs |-> u.mlvl_occs]

\* case_split(u) and its three subclasses: the snapshot of the engine's state;
\* born is the history of what the engine's state was at that moment, gen
\* the alternatives the split was created with, tried how many of them
\* were taken from it and cause the id of the constraint process_next had
\* taken from the queue
new_case_split(u, kind, tail, e, j) ==
    [kind |-> kind, assumption_idx |-> u.next_assumption_idx,
     failed_justifications |-> {}, subst |-> u.subst, cnstrs |-> u.cnstrs,
     mvar_occs |-> u.mvar_occs, mlvl_occs |-> u.mlvl_occs,
     tail |-> tail, expr |-> e, jst |-> j, born |-> engine_snapshot(u),
     gen |-> tail, tried |-> 0, cause |-> u.cur]

\* m_tc.push() and m_tc.pop(): tc_saves is the number of savepoints open in the
\* type checker, tc_pops the history of how many were open at each pop
tc_push(u) == [u EXCEPT !.tc_saves = @ + 1]

tc_pop(u) == [u EXCEPT !.tc_pops = @ \cup {u.tc_saves}, !.tc_saves = @ - 1]

\* add_case_split with a constructor that leaves m_next_assumption_idx as it is
add_case_split_same_idx(u, cs) ==
    [u EXCEPT !.tc_saves = @ + 1, !.case_splits = Append(@, cs)]

\* add_case_split(new ..._case_split(*this, ...)): the constructor's effects on
\* the engine, then the push
\* (created is the history of the splits: the constraint that caused the
\* split, whether it was queued, and the split's first assumption index)
add_case_split(u, cs) ==
    [u EXCEPT !.next_assumption_idx = @ + 1, !.tc_saves = @ + 1,
              !.case_splits = Append(@, cs),
              !.created = @ \cup {[cause |-> cs.cause, kind |-> cs.kind,
                                     queued |-> cs.cause \in DOMAIN u.cnstrs,
                                     idx |-> cs.assumption_idx]}]

\* The history of the restores: whether the engine's state after the restore
\* is the one of the split's creation, whether it differed before, whether
\* the split's assumption index is the one that was next before, whether
\* m_next_cidx, m_num_steps and m_ngen are what they were before, the
\* values of the two counters, whether the constraint that caused the split
\* is in the queue, and the split's kind
log_restore(u, before) ==
    [u EXCEPT !.restores = @ \cup
        {[exact |-> engine_snapshot(u) = u.case_splits[Len(u.case_splits)].born,
          changed |-> engine_snapshot(before) # u.case_splits[Len(u.case_splits)].born,
          fresh |-> u.case_splits[Len(u.case_splits)].assumption_idx
                        = before.next_assumption_idx,
          counters |-> /\ u.next_cidx = before.next_cidx
                       /\ u.num_steps = before.num_steps
                       /\ u.ngen = before.ngen,
          next_cidx |-> u.next_cidx, steps |-> u.num_steps,
          cause_queued |-> u.case_splits[Len(u.case_splits)].cause \in DOMAIN u.cnstrs,
          kind |-> u.case_splits[Len(u.case_splits)].kind]}]

\* restore_state leaving the engine's substitution as it is
restore_state_keeping_subst(u) ==
    LET top == Len(u.case_splits)
        d == u.case_splits[top] IN
    [u EXCEPT !.cnstrs = d.cnstrs,
              !.mvar_occs = d.mvar_occs, !.mlvl_occs = d.mlvl_occs,
              !.case_splits[top].assumption_idx = u.next_assumption_idx,
              !.case_splits[top].failed_justifications = @ \cup conflict_value(u),
              !.next_assumption_idx = @ + 1,
              !.conflict.some = FALSE]

\* case_split::restore_state of the top case split, lines 243-250
restore_state_snapshot(u) ==
    LET top == Len(u.case_splits)
        d == u.case_splits[top] IN
    [u EXCEPT !.subst = d.subst, !.cnstrs = d.cnstrs,
              !.mvar_occs = d.mvar_occs, !.mlvl_occs = d.mlvl_occs,
              !.case_splits[top].assumption_idx = u.next_assumption_idx,
              !.case_splits[top].failed_justifications = @ \cup conflict_value(u),
              !.next_assumption_idx = @ + 1,
              !.conflict.some = FALSE]

\* restore_state with a step budget for each branch: m_num_steps starts again
restore_state_resetting_steps(u) ==
    log_restore([restore_state_snapshot(tc_push(tc_pop(u))) EXCEPT !.num_steps = 0], u)

\* case_split::restore_state of the top case split: m_tc.pop(), m_tc.push(),
\* then the assignments
restore_state(u) == log_restore(restore_state_snapshot(tc_push(tc_pop(u))), u)

update_justification(c, j) == [c EXCEPT !.j = j]

\* Process constraints in cs, and append justification j to them
RECURSIVE process_constraints_loop(_, _, _)
process_constraints_loop(u, cs, j) ==
    IF cs = <<>> \/ Raised(u) THEN u
    ELSE process_constraints_loop(
             process_constraint(u, update_justification(Head(cs), mk_composite1(Head(cs).j, j))),
             Tail(cs), j)

\* process_constraints answering true whatever in_conflict() is
process_constraints_unchecked(u, cs, j) == Ret(process_constraints_loop(u, cs, j), TRUE)

process_constraints(u, cs, j) == return_not_in_conflict(process_constraints_loop(u, cs, j))

\* process_choice_result(m, r, j), line 723: u is the engine after
\* process_constraint(mk_eq_cnstr(m, v, j))
process_choice_result_cs(u, cs, j) ==
    IF Raised(u) \/ ~u.ret THEN u ELSE process_constraints(u, cs, j)

\* The history of the alternatives of choice constraints that were processed:
\* the expression, the choice, whether the case split held it in its tail,
\* the assumption of the case split and the justification its constraints got
log_choice(u, m, r, j) ==
    [u EXCEPT !.choices = @ \cup {[m |-> m, r |-> r, j |-> j,
                                   later |-> u.case_splits[Len(u.case_splits)].failed_justifications # {},
                                   a |-> mk_assumption_justification(
                                             u.case_splits[Len(u.case_splits)].assumption_idx)]}]

\* process_choice_result(m, r, j), lines 721-723: j is the composite with r's
\* justification
process_choice_result_j(u, m, r, j) ==
    process_choice_result_cs(process_constraint(log_choice(u, m, r, j), mk_eq_cnstr(m, r.v, j)),
                             r.cs, j)

\* process_choice_result(m, r, j); r is a choice (v, j, cs)
process_choice_result(u, m, r, j) ==
    process_choice_result_j(u, m, r, mk_composite1(j, r.j))

\* The top case split with its tail advanced
set_tail(u, tail) == [u EXCEPT !.case_splits[Len(u.case_splits)].tail = tail]

\* The assumption of the top case split
top_assumption(u) ==
    mk_assumption_justification(u.case_splits[Len(u.case_splits)].assumption_idx)

\* update_conflict(mk_composite1(*m_conflict, cs.m_failed_justifications)); return false;
update_conflict_failed(u, cs) ==
    Ret(update_conflict(u, mk_composite1(conflict_value(u), cs.failed_justifications)), FALSE)

\* The history of the alternatives taken from case splits: whether alt is
\* the first alternative of cs, as it was created, that was not taken yet,
\* and how many case splits newer than cs are on the stack
log_attempt(u, cs, alt) ==
    [u EXCEPT !.attempts = @ \cup
                  {[inorder |-> cs.tried < Len(cs.gen) /\ alt = cs.gen[cs.tried + 1],
                    newer |-> Cardinality({i \in DOMAIN u.case_splits :
                                 u.case_splits[i].assumption_idx > cs.assumption_idx})]},
              !.case_splits[Len(u.case_splits)].tried = @ + 1]

\* next_choice_case_split(cs), lines 729-733: u is the engine after restore_state
next_choice_case_split_restored(u, cs) ==
    process_choice_result(u, cs.expr, Head(cs.tail), mk_composite1(cs.jst, top_assumption(u)))

\* next_choice_case_split(cs) for the top case split cs
next_choice_case_split_of(u, cs) ==
    IF cs.tail # <<>>
    THEN next_choice_case_split_restored(
             set_tail(restore_state(log_attempt(u, cs, Head(cs.tail))), Tail(cs.tail)), cs)
    ELSE update_conflict_failed(u, cs)

next_choice_case_split(u) == next_choice_case_split_of(u, u.case_splits[Len(u.case_splits)])

\* next_plugin_case_split(cs), lines 762-765: u is the engine after restore_state
next_plugin_case_split_restored(u, cs) ==
    process_constraints(u, Head(cs.tail), top_assumption(u))

\* next_plugin_case_split(cs) for the top case split cs
next_plugin_case_split_of(u, cs) ==
    IF cs.tail # <<>>
    THEN next_plugin_case_split_restored(
             set_tail(restore_state(log_attempt(u, cs, Head(cs.tail))), Tail(cs.tail)), cs)
    ELSE update_conflict_failed(u, cs)

next_plugin_case_split(u) == next_plugin_case_split_of(u, u.case_splits[Len(u.case_splits)])

\* next_ho_case_split(cs), lines 790-794: u is the engine after restore_state
next_ho_case_split_restored(u, cs) ==
    process_constraints(u, Head(cs.tail), top_assumption(u))

\* next_ho_case_split(cs), lines 790-794, taking the last alternative of the
\* tail: u is the engine after restore_state
next_ho_case_split_restored_last(u, cs) ==
    process_constraints(u, cs.tail[Len(cs.tail)], top_assumption(u))

\* next_ho_case_split(cs) taking the last alternative of the tail
next_ho_case_split_last(u, cs) ==
    IF cs.tail # <<>>
    THEN next_ho_case_split_restored_last(
             set_tail(restore_state(log_attempt(u, cs, cs.tail[Len(cs.tail)])),
                      SubSeq(cs.tail, 1, Len(cs.tail) - 1)), cs)
    ELSE update_conflict_failed(u, cs)

\* next_ho_case_split(cs) for the top case split cs
next_ho_case_split_of(u, cs) ==
    IF cs.tail # <<>>
    THEN next_ho_case_split_restored(
             set_tail(restore_state(log_attempt(u, cs, Head(cs.tail))), Tail(cs.tail)), cs)
    ELSE update_conflict_failed(u, cs)

next_ho_case_split(u) == next_ho_case_split_of(u, u.case_splits[Len(u.case_splits)])

\* d->next(*this) for the top case split d
case_split_next(u) ==
    CASE u.case_splits[Len(u.case_splits)].kind = "plugin" -> next_plugin_case_split(u)
      [] u.case_splits[Len(u.case_splits)].kind = "choice" -> next_choice_case_split(u)
      [] u.case_splits[Len(u.case_splits)].kind = "ho" -> next_ho_case_split(u)

\* m_case_splits.pop_back() with no m_tc.pop()
pop_case_split_keeping_savepoint(u) ==
    [u EXCEPT !.case_splits = SubSeq(@, 1, Len(@) - 1)]

\* m_tc.pop(); m_case_splits.pop_back();
pop_case_split(u) ==
    [tc_pop(u) EXCEPT !.case_splits = SubSeq(@, 1, Len(@) - 1)]

\* The history of the case splits resolve_conflict discarded: whether the
\* conflict depended on the split's assumption, the alternatives the split
\* still held, its m_failed_justifications and the conflict carried onward
log_pop(u, depends) ==
    [u EXCEPT !.pops = @ \cup {[depends |-> depends,
                                left |-> Len(u.case_splits[Len(u.case_splits)].tail),
                                failed |-> u.case_splits[Len(u.case_splits)].failed_justifications,
                                conflict |-> u.conflict.j]}]

\* d->m_failed_justifications = mk_composite1(d->m_failed_justifications, *m_conflict)
add_failed_justification(u) ==
    [u EXCEPT !.case_splits[Len(u.case_splits)].failed_justifications =
                  mk_composite1(@, conflict_value(u))]

RECURSIVE resolve_conflict(_)

\* resolve_conflict(), lines 693-699: u is the engine after d->next(*this)
resolve_conflict_next(u) ==
    IF Raised(u) THEN u
    ELSE IF u.ret THEN Ret(reset_conflict(u), TRUE)
    ELSE resolve_conflict(pop_case_split(log_pop(u, TRUE)))

\* resolve_conflict(), lines 691-699: u is the engine after *m_conflict was read
resolve_conflict_top(u) ==
    IF Raised(u) THEN u
    ELSE IF depends_on(conflict_value(u), u.case_splits[Len(u.case_splits)].assumption_idx)
    THEN resolve_conflict_next(case_split_next(add_failed_justification(u)))
    ELSE resolve_conflict(pop_case_split(log_pop(u, FALSE)))

resolve_conflict(u) ==
    IF Raised(u) THEN u
    ELSE IF u.case_splits = <<>> THEN Ret(u, FALSE)
    ELSE resolve_conflict_top(deref_conflict(u))

\* throw unifier_exception(*m_conflict): u is the engine after *m_conflict was read
throw_unifier_exception(u) ==
    IF Raised(u) THEN u
    ELSE [u EXCEPT !.out = "unifier_exception", !.out_j = conflict_value(u)]

\* failure() without its exception
failure_silent(u) == [u EXCEPT !.out = "none"]

\* failure(): out is what next() hands back
failure(u) ==
    IF u.use_exception THEN throw_unifier_exception(deref_conflict(u))
    ELSE [u EXCEPT !.out = "none"]

\* process_choice_constraint(c), lines 746-756: u is the engine after
\* m_ngen.mk_child(), m_type_jst the instantiated type of m
process_choice_constraint_fn(u, c, m_type_jst) ==
    IF has_diverge(m_type_jst.first) THEN Throw(u, "no_return")
    ELSE IF c.fn # <<>>
    THEN process_choice_result(
             add_case_split(u, new_case_split(u, "choice", Tail(c.fn), c.e, m_type_jst.second)),
             c.e, Head(c.fn),
             mk_composite1(mk_composite1(c.j, m_type_jst.second),
                           mk_assumption_justification(u.next_assumption_idx)))
    ELSE Ret(set_conflict(u, mk_composite1(c.j, m_type_jst.second)), FALSE)

\* process_choice_constraint(c), line 745: u is the engine after infer(m), ty
\* what infer returned
process_choice_constraint_type(u, c, ty) ==
    IF Raised(u) THEN u
    ELSE IF ty.err THEN Throw(u, "kernel_exception")
    ELSE process_choice_constraint_fn([u EXCEPT !.ngen = @ + 1], c,
                                      instantiate_metavars(u.subst, ty.t))

\* process_choice_constraint(c), line 745
process_choice_constraint_infer(u, c, ty) ==
    process_choice_constraint_type(tc_callback(u, ty.cs), c, ty)

\* process_choice_constraint(c); the choice function of c is the list of
\* choices it produces
process_choice_constraint(u, c) == process_choice_constraint_infer(u, c, tc_infer(c.e, 0))

\* The alternatives the unifier plugin m_plugin produces for c.  "null" is the
\* plugin of the plugin-less unify overloads (no alternative); "args" unifies
\* two applications of the same constant argument by argument, and offers a
\* second alternative with the arguments swapped when there are two; "accept"
\* unifies them argument by argument and offers the empty list of constraints
\* as its second alternative (to_unifier_plugin, lines 1117-1128, hands an
\* array of arrays of constraints over as it is, empty arrays included).
plugin_args_alts(l, r, j) ==
    IF Len(l) = 2
    THEN << <<mk_eq_cnstr(l[1], r[1], j), mk_eq_cnstr(l[2], r[2], j)>>,
            <<mk_eq_cnstr(l[1], r[2], j), mk_eq_cnstr(l[2], r[1], j)>> >>
    ELSE << [i \in 1..Len(l) |-> mk_eq_cnstr(l[i], r[i], j)] >>

plugin_accept_alts(l, r, j) ==
    << [i \in 1..Len(l) |-> mk_eq_cnstr(l[i], r[i], j)], <<>> >>

plugin_alts(plugin, c) ==
    IF plugin \in {"args", "accept"} /\ is_eq_cnstr(c) /\ is_app(c.lhs) /\ is_app(c.rhs)
       /\ is_constant(get_app_fn(c.lhs)) /\ get_app_fn(c.lhs) = get_app_fn(c.rhs)
       /\ Len(get_app_args(c.lhs)) = Len(get_app_args(c.rhs))
    THEN IF plugin = "args"
         THEN plugin_args_alts(get_app_args(c.lhs), get_app_args(c.rhs), c.j)
         ELSE plugin_accept_alts(get_app_args(c.lhs), get_app_args(c.rhs), c.j)
    ELSE <<>>

\* process_plugin_constraint(c), lines 776-785: u is the engine after
\* m_ngen.mk_child()
process_plugin_constraint_alts(u, c, alts) ==
    IF alts = <<>> THEN Ret(set_conflict(u, c.j), FALSE)
    ELSE process_constraints(
             add_case_split(u, new_case_split(u, "plugin", Tail(alts), mk_var(0), {})),
             Head(alts), mk_assumption_justification(u.next_assumption_idx))

process_plugin_constraint(u, c) ==
    process_plugin_constraint_alts([u EXCEPT !.ngen = @ + 1], c, plugin_alts(u.plugin, c))

is_flex_rigid(c) == is_eq_cnstr(c) /\ (is_meta(c.lhs) # is_meta(c.rhs))
is_flex_flex(c) == is_eq_cnstr(c) /\ is_meta(c.lhs) /\ is_meta(c.rhs)

\* The projections of process_flex_rigid with vidx counting up from 0
RECURSIVE flex_rigid_projections_ascending(_, _, _, _, _, _)
flex_rigid_projections_ascending(m, mtype, margs, rhs, j, i) ==
    IF i > Len(margs) THEN <<>>
    ELSE IF ~is_local(margs[i]) /\ ~is_local(rhs)
    THEN << <<mk_eq_cnstr(margs[i], rhs, j),
              mk_eq_cnstr(m, mk_lambda_for(mtype, mk_var(i - 1)), j)>> >>
         \o flex_rigid_projections_ascending(m, mtype, margs, rhs, j, i + 1)
    ELSE IF is_local(margs[i]) /\ margs[i] = rhs
    THEN << <<mk_eq_cnstr(m, mk_lambda_for(mtype, mk_var(i - 1)), j)>> >>
         \o flex_rigid_projections_ascending(m, mtype, margs, rhs, j, i + 1)
    ELSE flex_rigid_projections_ascending(m, mtype, margs, rhs, j, i + 1)

\* The projections of process_flex_rigid, for the arguments margs[i..]
RECURSIVE flex_rigid_projections(_, _, _, _, _, _)
flex_rigid_projections(m, mtype, margs, rhs, j, i) ==
    IF i > Len(margs) THEN <<>>
    ELSE IF ~is_local(margs[i]) /\ ~is_local(rhs)
    THEN << <<mk_eq_cnstr(margs[i], rhs, j),
              mk_eq_cnstr(m, mk_lambda_for(mtype, mk_var(Len(margs) - i)), j)>> >>
         \o flex_rigid_projections(m, mtype, margs, rhs, j, i + 1)
    ELSE IF is_local(margs[i]) /\ margs[i] = rhs
    THEN << <<mk_eq_cnstr(m, mk_lambda_for(mtype, mk_var(Len(margs) - i)), j)>> >>
         \o flex_rigid_projections(m, mtype, margs, rhs, j, i + 1)
    ELSE flex_rigid_projections(m, mtype, margs, rhs, j, i + 1)

\* The imitation of an application or a macro application rhs: head is the
\* value built from the new arguments sargs
flex_rigid_imitation_args(m, mtype, margs, rargs, is_application, head, j, g) ==
    [imitate |-> TRUE,
     cs |-> [k \in 1..Len(rargs) |->
                mk_eq_cnstr(mk_app(mk_aux_metavar_for(mtype, g + 3 * (k - 1)), margs),
                            rargs[k], j)]
            \o <<mk_eq_cnstr(m,
                     mk_lambda_for(mtype,
                         IF is_application
                         THEN mk_app(head,
                                  [k \in 1..Len(rargs) |->
                                      mk_app_vars(mk_aux_metavar_for(mtype, g + 3 * (k - 1)),
                                                  Len(margs))])
                         ELSE mk_macro(head,
                                  [k \in 1..Len(rargs) |->
                                      mk_app_vars(mk_aux_metavar_for(mtype, g + 3 * (k - 1)),
                                                  Len(margs))])),
                     j)>>,
     names |-> 3 * Len(rargs)]

\* The imitation of a binder rhs with the auxiliary metavariables maux1, maux2
\* and the local constant new_local
flex_rigid_imitation_binding(m, mtype, margs, rhs, j, maux1, maux2, new_local) ==
    [imitate |-> TRUE,
     cs |-> <<mk_eq_cnstr(mk_app(maux1, margs), binding_domain(rhs), j),
              mk_eq_cnstr(mk_app1(mk_app(maux2, margs), new_local),
                          instantiate(binding_body(rhs), new_local), j),
              mk_eq_cnstr(m,
                  mk_lambda_for(mtype,
                      [rhs EXCEPT !.d = mk_app_vars(maux1, Len(margs)),
                                  !.b = mk_app_vars(maux2, Len(margs) + 1)]),
                  j)>>,
     names |-> 7]

\* The imitation of process_flex_rigid with the name generator at g:
\* (whether there is one, its constraints, the names it took)
flex_rigid_imitation(m, mtype, margs, rhs, j, g) ==
    IF is_app(rhs)
    THEN flex_rigid_imitation_args(m, mtype, margs, get_app_args(rhs), TRUE,
                                   get_app_fn(rhs), j, g)
    ELSE IF is_binding(rhs)
    THEN flex_rigid_imitation_binding(m, mtype, margs, rhs, j,
             mk_aux_metavar_for(mtype, g),
             mk_aux_metavar_for(
                 replace_range(mtype, mk_pi(binding_domain(rhs), binding_body(rhs))), g + 3),
             mk_local(g + 6, binding_domain(rhs)))
    ELSE IF is_sort(rhs) \/ is_constant(rhs)
    THEN [imitate |-> TRUE, cs |-> <<mk_eq_cnstr(m, mk_lambda_for(mtype, rhs), j)>>, names |-> 0]
    ELSE IF is_local(rhs)
    THEN [imitate |-> FALSE, cs |-> <<>>, names |-> 0]
    ELSE flex_rigid_imitation_args(m, mtype, margs, rhs.args, FALSE, rhs.d, j, g)

\* The history of the calls of process_flex_rigid, taken when the engine u is
\* about to process the first alternative under the justification a (or has
\* set the conflict): the number of alternatives, the case splits pushed and
\* the assumption indices consumed since the engine before, whether the top
\* case split holds the other alternatives, its assumption, and the conflict
log_flex_rigid(u, before, alts, j, a) ==
    [u EXCEPT !.flex_rigids = @ \cup
        {[n |-> Len(alts), j |-> j, a |-> a,
          pushed |-> Len(u.case_splits) - Len(before.case_splits),
          consumed |-> u.next_assumption_idx - before.next_assumption_idx,
          holds_rest |-> /\ u.case_splits # <<>>
                         /\ alts # <<>>
                         /\ u.case_splits[Len(u.case_splits)].tail = Tail(alts),
          top |-> IF u.case_splits = <<>> THEN {}
                  ELSE mk_assumption_justification(
                           u.case_splits[Len(u.case_splits)].assumption_idx),
          conflict |-> u.conflict]}]

\* process_flex_rigid(lhs, rhs, j), lines 891-899: u is the engine that is to
\* process the first alternative under the justification a
process_flex_rigid_first(u, before, alts, j, a) ==
    process_constraints(log_flex_rigid(u, before, alts, j, a), alts[1], a)

\* process_flex_rigid creating a backtracking point for a single alternative too
process_flex_rigid_alts_always_split(u, alts, j) ==
    IF alts = <<>> THEN Ret(log_flex_rigid(set_conflict(u, j), u, alts, j, {}), FALSE)
    ELSE process_flex_rigid_first(
             add_case_split(u, new_case_split(u, "ho", Tail(alts), mk_var(0), {})),
             u, alts, j, mk_assumption_justification(u.next_assumption_idx))

\* process_flex_rigid(lhs, rhs, j), lines 890-900: alts is built
process_flex_rigid_alts(u, alts, j) ==
    IF alts = <<>> THEN Ret(log_flex_rigid(set_conflict(u, j), u, alts, j, {}), FALSE)
    ELSE IF Len(alts) = 1 THEN process_flex_rigid_first(u, u, alts, j, {})
    ELSE process_flex_rigid_first(
             add_case_split(u, new_case_split(u, "ho", Tail(alts), mk_var(0), {})),
             u, alts, j, mk_assumption_justification(u.next_assumption_idx))

\* The history of the alternatives process_flex_rigid built
log_flex_alts(u, m, margs, rhs, j, alts) ==
    [u EXCEPT !.flex_alts = @ \cup
                  {[m |-> m, margs |-> margs, rhs |-> rhs, j |-> j, alts |-> alts]}]

\* process_flex_rigid(lhs, rhs, j), lines 887-900: alts is built
process_flex_rigid_built(u, m, margs, rhs, j, alts) ==
    process_flex_rigid_alts(log_flex_alts(u, m, margs, rhs, j, alts), alts, j)

\* process_flex_rigid(lhs, rhs, j), lines 840-900: imit is the imitation
process_flex_rigid_imit(u, m, margs, rhs, j, imit) ==
    process_flex_rigid_built([u EXCEPT !.ngen = @ + imit.names], m, margs, rhs, j,
        flex_rigid_projections(m, mlocal_type(m), margs, rhs, j, 1)
            \o (IF imit.imitate THEN <<imit.cs>> ELSE <<>>))

\* process_flex_rigid(lhs, rhs, j), lines 821-822: lhs is m applied to margs
process_flex_rigid_margs(u, m, margs, rhs, j) ==
    process_flex_rigid_imit(u, m, margs, rhs, j,
        flex_rigid_imitation(m, mlocal_type(m), margs, rhs, j, u.ngen))

\* process_flex_rigid(lhs, rhs, j)
process_flex_rigid_core(u, lhs, rhs, j) ==
    process_flex_rigid_margs(u, get_app_fn(lhs), get_app_args(lhs), rhs, j)

\* process_flex_rigid(c)
process_flex_rigid(u, c) ==
    IF is_meta(c.lhs) THEN process_flex_rigid_core(u, c.lhs, c.rhs, c.j)
    ELSE process_flex_rigid_core(u, c.rhs, c.lhs, c.j)

\* We just ignore flex-flex constraints.
process_flex_flex(u, c) == Ret(u, TRUE)

\* process_next(), lines 923-930: c is the constraint taken from the queue
process_next_cnstr(u, c) ==
    IF is_choice_cnstr(c) THEN process_choice_constraint(u, c)
    ELSE IF is_flex_rigid(c) THEN process_flex_rigid(u, c)
    ELSE IF is_flex_flex(c) THEN process_flex_flex(u, c)
    ELSE process_plugin_constraint(u, c)

\* process_next with the constraint left in the queue: no m_cnstrs.erase_min()
process_next_keeping_min(u) ==
    process_next_cnstr([u EXCEPT !.cur = SetMin(DOMAIN u.cnstrs)],
                       u.cnstrs[SetMin(DOMAIN u.cnstrs)])

\* Process the next constraint in the constraint queue m_cnstrs (cur is the
\* id of the constraint taken from the queue)
process_next(u) ==
    process_next_cnstr([u EXCEPT !.cnstrs = MapErase(@, SetMin(DOMAIN u.cnstrs)),
                                 !.cur = SetMin(DOMAIN u.cnstrs)],
                       u.cnstrs[SetMin(DOMAIN u.cnstrs)])

RECURSIVE next_loop(_)

\* next(), lines 955-956: u is the engine after resolve_conflict()
next_loop_resolved(u) ==
    IF Raised(u) THEN u
    ELSE IF u.ret THEN next_loop(u)
    ELSE failure(u)

\* next(), lines 954-956: u is the engine after process_next()
next_loop_processed(u) ==
    IF Raised(u) THEN u
    ELSE IF u.ret THEN next_loop(u)
    ELSE next_loop_resolved(resolve_conflict(u))

\* next(), lines 952-954: u is the engine after check_system()
next_loop_checked(u) ==
    IF Raised(u) THEN u ELSE next_loop_processed(process_next(u))

\* The while loop of next()
next_loop(u) ==
    IF Raised(u) THEN u
    ELSE IF DOMAIN u.cnstrs = {} THEN [u EXCEPT !.out = "some"]
    ELSE next_loop_checked(check_system(u))

\* The justification next() starts a later run with: every assumption of the
\* case-split stack
RECURSIVE all_assumptions(_)
all_assumptions(css) ==
    IF css = <<>> THEN {}
    ELSE mk_composite1(all_assumptions(SubSeq(css, 1, Len(css) - 1)),
                       mk_assumption_justification(css[Len(css)].assumption_idx))

\* next(), lines 942-943: u is the engine after resolve_conflict()
\* (site records which return statement of next() was taken: "entry", line 936;
\* "later", line 943; "last", line 949; "loop", lines 956 and 960)
next_resolved(u) ==
    IF Raised(u) THEN u
    ELSE IF ~u.ret THEN failure([u EXCEPT !.site = "later"])
    ELSE next_loop([u EXCEPT !.site = "loop"])

\* The body of next() with m_first never consulted: the loop runs on every call.
next_ignoring_first(u) ==
    IF in_conflict(u) THEN failure([u EXCEPT !.site = "entry"])
    ELSE IF u.case_splits # <<>>
    THEN next_resolved(resolve_conflict(set_conflict(u, all_assumptions(u.case_splits))))
    ELSE next_loop([u EXCEPT !.first = FALSE, !.site = "loop"])

\* Produce the next solution: out is "some" (the substitution is u.subst),
\* "none", or "unifier_exception" (with out_j); exc is any other exception
next(u) ==
    IF in_conflict(u) THEN failure([u EXCEPT !.site = "entry"])
    ELSE IF u.case_splits # <<>>
    THEN next_resolved(resolve_conflict(set_conflict(u, all_assumptions(u.case_splits))))
    ELSE IF u.first THEN next_loop([u EXCEPT !.first = FALSE, !.site = "loop"])
    ELSE [u EXCEPT !.out = "none", !.site = "last"]

\* next() statement by statement.  out stays "run" while next() has not
\* returned.
\* next(), lines 942-943, up to the while loop: u is the engine after
\* resolve_conflict()
next_entry_resolved(u) ==
    IF Raised(u) THEN u
    ELSE IF ~u.ret THEN failure([u EXCEPT !.site = "later"])
    ELSE [u EXCEPT !.site = "loop"]

\* next(), lines 935-950: the statements before the while loop
next_entry(u) ==
    IF in_conflict(u) THEN failure([u EXCEPT !.site = "entry"])
    ELSE IF u.case_splits # <<>>
    THEN next_entry_resolved(resolve_conflict(set_conflict(u, all_assumptions(u.case_splits))))
    ELSE IF u.first THEN [u EXCEPT !.first = FALSE, !.site = "loop"]
    ELSE [u EXCEPT !.out = "none", !.site = "last"]

\* next(), lines 955-956, one iteration: u is the engine after resolve_conflict()
next_iteration_resolved(u) ==
    IF Raised(u) THEN u
    ELSE IF u.ret THEN u
    ELSE failure(u)

\* next(), lines 954-956, one iteration: u is the engine after process_next()
next_iteration_processed(u) ==
    IF Raised(u) THEN u
    ELSE IF u.ret THEN u
    ELSE next_iteration_resolved(resolve_conflict(u))

\* next(), lines 952-954, one iteration: u is the engine after check_system()
next_iteration_checked(u) ==
    IF Raised(u) THEN u ELSE next_iteration_processed(process_next(u))

\* An iteration of the while loop that leaves check_system() out
next_iteration_unchecked(u) ==
    IF DOMAIN u.cnstrs = {} THEN [u EXCEPT !.out = "some"]
    ELSE next_iteration_checked(u)

\* One evaluation of the while loop's condition and, the queue holding a
\* constraint, of its body; the return of line 960 otherwise
next_iteration(u) ==
    IF DOMAIN u.cnstrs = {} THEN [u EXCEPT !.out = "some"]
    ELSE next_iteration_checked(check_system(u))

\* The interrupt flag of the engine's thread at the entry of a call, the
\* requests made so far, and the number of polls after which a request
\* arrives during the call (0: none)
thread_interrupt(flag, requests, after) ==
    [flag |-> flag, requests |-> requests, after |-> after]

\* The engine as its constructor builds it from cs, s, p, use_exception and
\* max_steps, before the constructor's body runs
new_unifier_fn(s, p, use_exception, max_steps, ub, interrupt) ==
    [subst |-> s, cnstrs |-> EmptyFn, cnstrs_run |-> <<>>, mvar_occs |-> EmptyFn, mlvl_occs |-> EmptyFn,
     next_cidx |-> 0, next_assumption_idx |-> 0, num_steps |-> 0, first |-> TRUE,
     case_splits |-> <<>>, conflict |-> NoConflict, ngen |-> NgenBase + 1, tc_saves |-> 0,
     use_exception |-> use_exception, max_steps |-> max_steps, plugin |-> p,
     interrupt |-> interrupt.flag, requests |-> interrupt.requests,
     interrupt_after |-> interrupt.after,
     ret |-> TRUE, st |-> "Continue", exc |-> "none", out |-> "run", out_j |-> {},
     site |-> "none", ub |-> ub, ub_hit |-> FALSE, reassigned |-> FALSE, pops |-> {},
     mismatch |-> FALSE, choices |-> {}, restores |-> {},
     wakes |-> <<>>, wake_ups |-> {}, attempts |-> {}, flex_rigids |-> {},
     flex_alts |-> {}, dispatches |-> {}, tc_pops |-> {}, issued |-> {},
     cur |-> -1, created |-> {}]

\* The constructor's body: process_constraint(cs[i]) for each input
RECURSIVE unifier_fn_body(_, _)
unifier_fn_body(u, cs) ==
    IF cs = <<>> \/ Raised(u) THEN u
    ELSE unifier_fn_body(process_constraint(u, Head(cs)), Tail(cs))

unifier_fn(cs, s, p, use_exception, max_steps, ub, interrupt) ==
    unifier_fn_body(new_unifier_fn(s, p, use_exception, max_steps, ub, interrupt), cs)

(***************************************************************************)
(* The convenience form unify(env, lhs, rhs, ngen, p, max_steps)           *)
(* (unifier.cpp, lines 995-1021).                                          *)
(***************************************************************************)
\* The metavariable a Solved unify_simple(s, c) assigns, for lhs # rhs
RECURSIVE lvl_assign_target(_, _)
lvl_assign_target(lhs, rhs) ==
    IF is_meta_lvl(lhs) THEN meta_id(lhs)
    ELSE IF is_meta_lvl(rhs) THEN meta_id(rhs)
    ELSE lvl_assign_target(succ_of(lhs), succ_of(rhs))

\* Whether a Solved unify_simple(s, c) assigned a metavariable that s assigns
assigns_assigned(s, c) ==
    IF c.lhs = c.rhs THEN FALSE
    ELSE IF is_eq_cnstr(c)
    THEN is_assigned(s, mlocal_name(get_app_fn(IF is_meta(c.lhs) THEN c.lhs ELSE c.rhs)))
    ELSE is_assigned_lvl(s, lvl_assign_target(c.lhs, c.rhs))

\* The callback the type checker tc is built with; acc holds the captured
\* locals s, cs and failed (reassigned is the history of the assignments made,
\* calls the history of the callback's invocations: the constraint, and what
\* unify_simple answered or "Ignored" when it was not called)
unify_callback_r(acc, c, r) ==
    CASE r.first = "Solved" ->
             [acc EXCEPT !.s = r.second, !.reassigned = @ \/ assigns_assigned(acc.s, c),
                         !.calls = Append(@, [c |-> c, status |-> "Solved", s |-> r.second])]
      [] r.first = "Failed" ->
             [acc EXCEPT !.failed = TRUE,
                         !.calls = Append(@, [c |-> c, status |-> "Failed", s |-> r.second])]
      [] r.first = "Unsupported" ->
             [acc EXCEPT !.cs = Append(@, c),
                         !.calls = Append(@, [c |-> c, status |-> "Unsupported", s |-> r.second])]

\* The callback without its test of failed
unify_callback_after_failed(acc, c) == unify_callback_r(acc, c, unify_simple_cnstr(acc.s, c))

unify_callback(acc, c) ==
    IF acc.failed
    THEN [acc EXCEPT !.calls = Append(@, [c |-> c, status |-> "Ignored", s |-> acc.s])]
    ELSE unify_callback_r(acc, c, unify_simple_cnstr(acc.s, c))

RECURSIVE unify_callbacks(_, _)
unify_callbacks(acc, cs) ==
    IF cs = <<>> THEN acc ELSE unify_callbacks(unify_callback(acc, Head(cs)), Tail(cs))

\* unify(env, lhs, rhs, ngen, p, max_steps) up to its return statement:
\* first is "empty" (the empty list), "single" (the list of s alone) or
\* "engine" (the stream of an engine built from cs and s); ok is what
\* is_def_eq returned
unify_lhs_rhs_acc(ok, acc) ==
    [first |-> IF ~ok \/ acc.failed THEN "empty"
               ELSE IF acc.cs = <<>> THEN "single"
               ELSE "engine",
     s |-> acc.s, cs |-> acc.cs, failed |-> acc.failed, reassigned |-> acc.reassigned,
     ok |-> ok, calls |-> acc.calls]

unify_lhs_rhs_eq(eq) ==
    unify_lhs_rhs_acc(eq.ok,
        unify_callbacks([s |-> empty_substitution, cs |-> <<>>, failed |-> FALSE,
                         reassigned |-> FALSE, calls |-> <<>>], eq.cs))

unify_lhs_rhs(lhs, rhs) == unify_lhs_rhs_eq(tc_is_def_eq(lhs, rhs, {}, 0))

(***************************************************************************)
(* Inputs.                                                                 *)
(***************************************************************************)
\* The expressions unify_simple is called on.
SimpleTerms ==
    { MetaM, MetaN, ConC, LocX, LocY,
      mk_app1(MetaH, LocX), mk_app1(MetaH, ConC),
      mk_app(MetaK, <<LocX, LocY>>), mk_app(MetaK, <<LocX, LocX>>),
      mk_app1(FunF, LocX), mk_app1(FunF, MetaM), mk_app1(FunF, ConC),
      mk_app(FunG, <<LocY, LocX>>), mk_app1(FunF, mk_app1(MetaH, LocX)),
      mk_app1(MetaH, mk_app1(FunF, LocX)),
      mk_lambda(TyA, mk_app1(FunF, mk_var(0))) }

\* The substitutions unify_simple is called with.
SimpleSubsts ==
    { empty_substitution,
      subst_assign(empty_substitution, 21, ConC, mk_justification(1)),
      subst_assign(empty_substitution, 22, MetaM, mk_justification(1)),
      subst_assign(empty_substitution, 22, ConD, mk_justification(1)) }

NoResult == [first |-> "none"]

\* Further metavariables and a universe metavariable of the engine's inputs.
MetaP == mk_metavar(26, Arrow(TyA, Sort1))
UnivU == mk_meta_univ(31)

\* The justifications unify_simple is called with: justification() and one
\* that names an input.
SimpleJsts == { {}, mk_justification(0) }

\* The universe levels unify_simple is called on.
SimpleLevels ==
    { UnivU, mk_meta_univ(32), mk_param_univ(5), mk_level_zero,
      mk_succ(UnivU), mk_succ(mk_param_univ(5)), mk_succ(mk_succ(UnivU)),
      mk_max(UnivU, mk_param_univ(5)) }

\* The constraints unify_simple(s, c) is called on.
SimpleCnstrs ==
    { mk_eq_cnstr(MetaM, ConC, mk_justification(0)),
      mk_eq_cnstr(mk_app1(FunF, LocX), mk_app1(MetaH, LocX), {}),
      mk_eq_cnstr(MetaM, mk_app1(FunF, MetaM), mk_justification(0)),
      mk_eq_cnstr(mk_app1(FunF, MetaM), mk_app1(FunF, ConC), mk_justification(0)),
      mk_level_eq_cnstr(UnivU, mk_param_univ(5), mk_justification(0)),
      mk_level_eq_cnstr(mk_succ(UnivU), UnivU, {}),
      mk_level_eq_cnstr(mk_max(UnivU, mk_param_univ(5)), UnivU, mk_justification(0)),
      mk_choice_cnstr(MetaM, <<[v |-> ConC, j |-> {}, cs |-> <<>>]>>, FALSE, mk_justification(0)) }

\* A choice (v, j, cs) of a choice function
mk_choice(v) == [v |-> v, j |-> {}, cs |-> <<>>]

\* The constraints the engine's inputs are drawn from; their justifications
\* are set from their position in the input (WithJst).
CnstrPool ==
    { mk_eq_cnstr(MetaM, ConC, {}),
      mk_eq_cnstr(MetaM, ConD, {}),
      mk_eq_cnstr(ConC, ConD, {}),
      mk_eq_cnstr(mk_app1(MetaH, LocX), mk_app1(FunF, LocX), {}),
      mk_eq_cnstr(mk_app1(MetaH, ConC), mk_app1(FunF, ConC), {}),
      mk_eq_cnstr(MetaM, mk_app1(FunF, MetaM), {}),
      mk_eq_cnstr(mk_app1(MetaH, ConC), mk_app1(MetaH, ConD), {}),
      mk_eq_cnstr(MetaM, MetaN, {}),
      mk_eq_cnstr(mk_app1(FunF, MetaM), mk_app1(FunF, ConC), {}),
      mk_eq_cnstr(mk_app(FunG, <<MetaM, MetaN>>), mk_app(FunG, <<ConC, ConD>>), {}),
      mk_eq_cnstr(MetaM, ConB, {}),
      mk_eq_cnstr(mk_app1(MetaH, ConC), ConC, {}),
      mk_eq_cnstr(mk_app1(MetaH, LocX), LocY, {}),
      mk_eq_cnstr(mk_app1(MetaP, ConC), mk_pi(TyA, TyA), {}),
      mk_eq_cnstr(mk_app(MetaK, <<ConC, ConD>>), mk_app1(FunF, ConC), {}),
      mk_eq_cnstr(mk_app1(FunF, MetaM), mk_app1(FunF, ConB), {}),
      mk_level_eq_cnstr(UnivU, mk_succ(mk_level_zero), {}),
      mk_level_eq_cnstr(UnivU, mk_succ(UnivU), {}),
      mk_choice_cnstr(MetaM, <<mk_choice(ConC), mk_choice(ConD)>>, FALSE, {}),
      mk_choice_cnstr(MetaH, <<mk_choice(mk_lambda(TyA, mk_var(0)))>>, TRUE, {}),
      mk_choice_cnstr(MetaM, <<mk_choice(ConB), mk_choice(ConC)>>, FALSE, {}),
      mk_choice_cnstr(MetaN, <<>>, FALSE, {}) }

\* The longest input constraint sequence.
MaxCnstrs == 2

\* The values of max_steps the engine is built with.
SmallMaxSteps == 3
LargeMaxSteps == 60

\* The number of times the solution stream is pulled.
MaxPulls == 4

\* The input constraints carry the justifications <<"in", 1>>, <<"in", 2>>, ...
WithJst(cs) == [k \in DOMAIN cs |-> [cs[k] EXCEPT !.j = mk_justification(k)]]

\* Longer inputs: three queued constraints that reference ?m, the first and
\* the third of which also reference ?n, and then an assignment of ?m; and
\* three queued constraints that reference ?m, the second of which is refuted
\* by the assignment of ?m that follows
WakeInputs ==
    { << mk_eq_cnstr(mk_app1(FunF, MetaN), mk_app1(FunF, MetaM), {}),
         mk_eq_cnstr(mk_app1(FunF, MetaM), mk_app1(FunF, ConC), {}),
         mk_eq_cnstr(mk_app(FunG, <<MetaM, MetaN>>), mk_app(FunG, <<ConC, ConC>>), {}),
         mk_eq_cnstr(MetaM, ConC, {}) >>,
      << mk_eq_cnstr(mk_app1(FunF, MetaM), mk_app1(FunF, ConC), {}),
         mk_eq_cnstr(mk_app(FunG, <<MetaM, MetaN>>), mk_app(FunG, <<ConC, ConD>>), {}),
         mk_eq_cnstr(MetaM, ConC, {}) >>,
      << mk_eq_cnstr(mk_app1(FunF, MetaN), mk_app1(FunF, MetaM), {}),
         mk_eq_cnstr(mk_app1(FunF, MetaM), mk_app1(FunF, ConD), {}),
         mk_eq_cnstr(mk_app1(FunF, MetaM), mk_app1(FunF, ConC), {}),
         mk_eq_cnstr(MetaM, ConC, {}),
         mk_eq_cnstr(MetaN, ConC, {}) >> }

\* Flex-rigid constraints whose right-hand side is a local constant that
\* equals none of the arguments, the second argument or both arguments, and
\* an input on which process_flex_rigid builds one, two and no alternative
FlexRigidInputs ==
    { << mk_eq_cnstr(mk_app1(MetaH, ConC), LocY, {}) >>,
      << mk_eq_cnstr(mk_app(MetaK, <<ConC, LocX>>), LocX, {}) >>,
      << mk_eq_cnstr(mk_app(MetaK, <<LocX, LocX>>), LocX, {}) >>,
      << mk_eq_cnstr(mk_app(MetaK, <<ConC, LocX>>), LocX, {}),
         mk_eq_cnstr(mk_app1(MetaH, ConC), ConC, {}),
         mk_eq_cnstr(mk_app1(MetaP, ConC), LocY, {}) >> }

CnstrInputs ==
    UNION { { WithJst(cs) : cs \in [1..n -> CnstrPool] } : n \in 0..MaxCnstrs }
        \cup { WithJst(cs) : cs \in WakeInputs \cup FlexRigidInputs }

\* The unifier plugins the engine is built with (see plugin_alts).
Plugins == {"null", "args", "accept"}

\* What reading an optional that holds no value can do (see conflict_value).
UbOutcomes == {"none", "all", "crash", "stale"}

\* The terms the convenience form unify(env, lhs, rhs, ...) is called on.
ConvTerms ==
    { MetaM, ConC,
      mk_app(FunG, <<MetaM, MetaM>>), mk_app(FunG, <<ConC, ConD>>),
      mk_app(FunG, <<MetaM, MetaN>>), mk_app(FunG, <<ConC, ConC>>),
      mk_app(FunG, <<MetaN, ConC>>),
      mk_app1(FunF, MetaM), mk_app1(FunF, ConC),
      mk_app1(FunF, mk_app1(MetaH, ConC)), mk_app1(FunF, mk_app1(FunF, ConC)),
      mk_app1(FunF, mk_app1(MetaH, LocX)),
      mk_app(FunG, <<mk_app1(FunF, MetaM), ConC>>),
      mk_app(FunG, <<mk_app1(MetaH, ConC), mk_app1(MetaH, ConD)>>) }

(***************************************************************************)
(* State.                                                                  *)
(***************************************************************************)
VARIABLES
    us_nargs,  \* unify_simple (Lua): the number of arguments, 2, 3 or 4
    us_s,      \* unify_simple: the substitution argument
    us_lhs,    \* unify_simple: lhs (argument 2: an expression or a level, or the
               \* constraint when two arguments are passed)
    us_rhs,    \* unify_simple: rhs (argument 3)
    us_j,      \* unify_simple: the justification (argument 4)
    us_r,      \* unify_simple: the pair returned, NoResult before the call
    cv_lhs,    \* unify(env, lhs, rhs, ...): lhs
    cv_rhs,    \* unify(env, lhs, rhs, ...): rhs
    cv_o,      \* unify(env, lhs, rhs, ngen, p, o): the options o
    cv_r,      \* what the call did: its locals s, cs and failed when it returned
    in_cs,     \* the constraints the engine is built from
    pc,        \* "new": no engine yet; "live": engine built; "raised": an exception
               \* left the constructor, or one other than the unifier exception
               \* and the step-limit exception left next()
    outs,      \* what each call of next() handed back, in order
    m_subst, m_cnstrs, m_mvar_occs, m_mlvl_occs, m_next_cidx,
    m_cnstrs_run,  \* m_cnstrs: the entries of long runs of equal constraints (see ctor_run)
    m_next_assumption_idx, m_num_steps, m_first, m_case_splits, m_conflict,
    m_ngen, m_tc_saves, m_use_exception, m_max_steps, m_plugin,
    g_interrupt,   \* the interrupt flag of the thread that runs the engine
    g_requests,    \* how many interrupts were requested by another thread
    h_reassigned,  \* history: assign was called on an assigned metavariable
    h_ub_hit,      \* history: *m_conflict was read while there was no conflict
    h_pops,        \* history: the case splits resolve_conflict discarded
    h_mismatch,    \* history: assign returned on a type mismatch without a conflict
    h_choices,     \* history: the alternatives of choice constraints that were processed
    h_restores,    \* history: the restores of case splits
    h_wake_ups,    \* history: the wake-ups of the assign calls
    h_attempts,    \* history: the alternatives taken from case splits
    h_flex_rigids, \* history: the calls of process_flex_rigid
    h_flex_alts,   \* history: the alternatives process_flex_rigid built
    h_dispatches,  \* history: the calls of process_constraint and process_constraint_cidx
    h_tc_pops,     \* history: the savepoints open at each m_tc.pop()
    h_issued,      \* history: the ids add_cnstr gave to constraints
    h_created      \* history: the case splits created

simple_vars == <<us_nargs, us_s, us_lhs, us_rhs, us_j, us_r>>
conv_vars == <<cv_lhs, cv_rhs, cv_o, cv_r>>
unifier_vars ==
    <<m_subst, m_cnstrs, m_cnstrs_run, m_mvar_occs, m_mlvl_occs, m_next_cidx,
      m_next_assumption_idx, m_num_steps, m_first, m_case_splits, m_conflict,
      m_ngen, m_tc_saves, m_use_exception, m_max_steps, m_plugin>>
history_vars ==
    <<h_reassigned, h_ub_hit, h_pops, h_mismatch, h_choices, h_restores, h_wake_ups,
      h_attempts, h_flex_rigids, h_flex_alts, h_dispatches, h_tc_pops, h_issued,
      h_created>>
engine_vars == <<in_cs, pc, outs, unifier_vars, g_interrupt, g_requests, history_vars>>
vars == <<simple_vars, conv_vars, engine_vars>>

\* The justification argument of the modelled unify_simple calls.

\* The engine's fields as one record, at the entry of a method; ub is what a
\* read of an empty m_conflict does during the call, and no interrupt is
\* requested during the call
TheUnifier(ub) ==
    [subst |-> m_subst, cnstrs |-> m_cnstrs, cnstrs_run |-> m_cnstrs_run,
     mvar_occs |-> m_mvar_occs,
     mlvl_occs |-> m_mlvl_occs, next_cidx |-> m_next_cidx,
     next_assumption_idx |-> m_next_assumption_idx, num_steps |-> m_num_steps,
     first |-> m_first, case_splits |-> m_case_splits, conflict |-> m_conflict,
     ngen |-> m_ngen, tc_saves |-> m_tc_saves, use_exception |-> m_use_exception,
     max_steps |-> m_max_steps, plugin |-> m_plugin, interrupt |-> g_interrupt,
     requests |-> g_requests, interrupt_after |-> 0,
     ret |-> TRUE, st |-> "Continue", exc |-> "none", out |-> "run", out_j |-> {},
     site |-> "none", ub |-> ub, ub_hit |-> FALSE, reassigned |-> FALSE, pops |-> {},
     mismatch |-> FALSE, choices |-> {}, restores |-> {},
     wakes |-> <<>>, wake_ups |-> {}, attempts |-> {}, flex_rigids |-> {},
     flex_alts |-> {}, dispatches |-> {}, tc_pops |-> {}, issued |-> {},
     cur |-> -1, created |-> {}]

\* The engine's fields after a method returned (or raised) with the record u
SetUnifier(u) ==
    /\ m_subst' = u.subst
    /\ m_cnstrs' = u.cnstrs
    /\ m_cnstrs_run' = u.cnstrs_run
    /\ m_mvar_occs' = u.mvar_occs
    /\ m_mlvl_occs' = u.mlvl_occs
    /\ m_next_cidx' = u.next_cidx
    /\ m_next_assumption_idx' = u.next_assumption_idx
    /\ m_num_steps' = u.num_steps
    /\ m_first' = u.first
    /\ m_case_splits' = u.case_splits
    /\ m_conflict' = u.conflict
    /\ m_ngen' = u.ngen
    /\ m_tc_saves' = u.tc_saves
    /\ m_use_exception' = u.use_exception
    /\ m_max_steps' = u.max_steps
    /\ m_plugin' = u.plugin
    /\ g_interrupt' = u.interrupt
    /\ g_requests' = u.requests
    /\ h_reassigned' = (h_reassigned \/ u.reassigned)
    /\ h_ub_hit' = (h_ub_hit \/ u.ub_hit)
    /\ h_pops' = h_pops \cup u.pops
    /\ h_mismatch' = (h_mismatch \/ u.mismatch)
    /\ h_choices' = h_choices \cup u.choices
    /\ h_restores' = h_restores \cup u.restores
    /\ h_wake_ups' = h_wake_ups \cup u.wake_ups
    /\ h_attempts' = h_attempts \cup u.attempts
    /\ h_flex_rigids' = h_flex_rigids \cup u.flex_rigids
    /\ h_flex_alts' = h_flex_alts \cup u.flex_alts
    /\ h_dispatches' = h_dispatches \cup u.dispatches
    /\ h_tc_pops' = h_tc_pops \cup u.tc_pops
    /\ h_issued' = h_issued \cup u.issued
    /\ h_created' = h_created \cup u.created

\* No engine: the fields of an engine that is yet to be built
NoUnifier(p, use_exception, max_steps) ==
    LET u == new_unifier_fn(empty_substitution, p, use_exception, max_steps, "none",
                            thread_interrupt(FALSE, 0, 0)) IN
    /\ m_subst = u.subst
    /\ m_cnstrs = u.cnstrs
    /\ m_cnstrs_run = u.cnstrs_run
    /\ m_mvar_occs = u.mvar_occs
    /\ m_mlvl_occs = u.mlvl_occs
    /\ m_next_cidx = u.next_cidx
    /\ m_next_assumption_idx = u.next_assumption_idx
    /\ m_num_steps = u.num_steps
    /\ m_first = u.first
    /\ m_case_splits = u.case_splits
    /\ m_conflict = u.conflict
    /\ m_ngen = u.ngen
    /\ m_tc_saves = u.tc_saves
    /\ m_use_exception = u.use_exception
    /\ m_max_steps = u.max_steps
    /\ m_plugin = u.plugin
    /\ g_interrupt = u.interrupt
    /\ g_requests = u.requests
    /\ h_reassigned = FALSE
    /\ h_ub_hit = FALSE
    /\ h_pops = {}
    /\ h_mismatch = FALSE
    /\ h_choices = {}
    /\ h_restores = {}
    /\ h_wake_ups = {}
    /\ h_attempts = {}
    /\ h_flex_rigids = {}
    /\ h_flex_alts = {}
    /\ h_dispatches = {}
    /\ h_tc_pops = {}
    /\ h_issued = {}
    /\ h_created = {}
    /\ pc = "new"
    /\ outs = <<>>

NoSimple ==
    /\ us_nargs = 4
    /\ us_s = empty_substitution
    /\ us_lhs = ConC
    /\ us_rhs = ConC
    /\ us_j = {}
    /\ us_r = NoResult

\* The options o of unify(env, lhs, rhs, ngen, p, o): unifier.use_exceptions
\* and unifier.max_steps
unifier_options(use_exceptions, max_steps) ==
    [use_exceptions |-> use_exceptions, max_steps |-> max_steps]

NoConv ==
    /\ cv_lhs = ConC
    /\ cv_rhs = ConC
    /\ cv_o = unifier_options(TRUE, LargeMaxSteps)
    /\ cv_r = NoResult

(***************************************************************************)
(* Specification SpecSimple: one call of unify_simple on every input.      *)
(***************************************************************************)
InitSimple ==
    /\ us_s \in SimpleSubsts
    /\ us_nargs \in {2, 3, 4}
    /\ \/ /\ us_nargs = 2
          /\ us_lhs \in SimpleCnstrs
          /\ us_rhs = ConC
          /\ us_j = {}
       \/ /\ us_nargs \in {3, 4}
          /\ \/ us_lhs \in SimpleTerms /\ us_rhs \in SimpleTerms
             \/ us_lhs \in SimpleLevels /\ us_rhs \in SimpleLevels
          /\ us_j \in (IF us_nargs = 3 THEN {{}} ELSE SimpleJsts)
    /\ us_r = NoResult
    /\ NoConv
    /\ in_cs = <<>>
    /\ NoUnifier("null", FALSE, LargeMaxSteps)

\* unify_simple of the Lua API (lines 1036-1048): the overload is chosen by
\* the number of arguments and by the type of argument 2; with three
\* arguments the justification is justification()
lua_unify_simple(nargs, s, a2, a3, a4) ==
    IF nargs = 2 THEN unify_simple_cnstr(s, a2)
    ELSE IF nargs = 3 /\ is_expr(a2) THEN unify_simple(s, a2, a3, {})
    ELSE IF nargs = 3 /\ is_level(a2) THEN unify_simple_lvl(s, a2, a3, {})
    ELSE IF is_expr(a2) THEN unify_simple(s, a2, a3, a4)
    ELSE unify_simple_lvl(s, a2, a3, a4)

UnifySimpleCall ==
    /\ us_r = NoResult
    /\ us_r' = lua_unify_simple(us_nargs, us_s, us_lhs, us_rhs, us_j)
    /\ UNCHANGED <<us_nargs, us_s, us_lhs, us_rhs, us_j, conv_vars, engine_vars>>

NextSimple == UnifySimpleCall

SpecSimple == InitSimple /\ [][NextSimple]_vars

(***************************************************************************)
(* Specification Spec: the engine is built from the input constraints      *)
(* (unify(env, num_cs, cs, ...)), and its solution stream is pulled.       *)
(***************************************************************************)
\* What one call of next() that ended with the record u handed back
pull_result(u) ==
    [kind |-> IF Raised(u) THEN u.exc ELSE u.out,
     s |-> IF ~Raised(u) /\ u.out = "some" THEN u.subst ELSE empty_substitution,
     j |-> IF ~Raised(u) /\ u.out = "unifier_exception" THEN u.out_j ELSE {},
     site |-> u.site,
     conflict |-> u.conflict.some,
     ub_hit |-> u.ub_hit,
     nsplits |-> Len(u.case_splits)]

Init ==
    /\ NoSimple
    /\ NoConv
    /\ in_cs \in CnstrInputs
    /\ \E p \in Plugins, e \in BOOLEAN, n \in {SmallMaxSteps, LargeMaxSteps} :
           NoUnifier(p, e, n)

\* unify(env, num_cs, cs, ngen, p, use_exception, max_steps): the engine's constructor
\* The engine and pc after the constructor ended with the record u
Constructed(u) ==
    /\ SetUnifier(u)
    /\ pc' = IF Raised(u) THEN "raised" ELSE "live"

\* The engine, pc and outs after next() ended with the record u.  The
\* step-limit exception and the interrupted exception leave the engine as it
\* was when check_system threw, and the stream can be pulled again.
Pulled(u) ==
    /\ SetUnifier(u)
    /\ outs' = Append(outs, pull_result(u))
    /\ pc' = IF Raised(u) /\ u.exc \notin {"step_limit", "interrupted"} THEN "raised"
             ELSE "live"

\* next() ended with the record u under the outcome ub of reading an empty
\* m_conflict: the outcomes other than "none" arise in the calls that read it
PulledWith(u, ub) ==
    /\ ub = "none" \/ u.ub_hit
    /\ Pulled(u)

\* The most interrupts that are requested while one stream is pulled
MaxInterrupts == 1

\* A request that arrives during a call arrives after at most this many polls
MaxPolls == 2

\* Another thread requests an interrupt: the flag of the engine's thread is
\* set, between two operations on the engine or inside the loop of next()
RequestInterrupt ==
    /\ pc \in {"new", "live", "loop"}
    /\ ~g_interrupt
    /\ g_requests < MaxInterrupts
    /\ g_interrupt' = TRUE
    /\ g_requests' = g_requests + 1
    /\ UNCHANGED <<simple_vars, conv_vars, in_cs, pc, outs, unifier_vars, history_vars>>

\* After how many polls of a call that begins now a request may arrive
InterruptAfter ==
    IF ~g_interrupt /\ g_requests < MaxInterrupts THEN 0..MaxPolls ELSE {0}

\* The engine at the entry of a method, a request arriving after k polls
Interruptible(u, k) == [u EXCEPT !.interrupt_after = k]

Construct ==
    /\ pc = "new"
    /\ \E k \in InterruptAfter :
         Constructed(unifier_fn(in_cs, empty_substitution, m_plugin, m_use_exception,
                                m_max_steps, "none",
                                thread_interrupt(g_interrupt, g_requests, k)))
    /\ UNCHANGED <<simple_vars, conv_vars, in_cs, outs>>

\* One pull of the stream unify(u): u->next()
Pull ==
    /\ pc = "live"
    /\ Len(outs) < MaxPulls
    /\ \E k \in InterruptAfter :
         \E ub \in UbOutcomes :
             PulledWith(next(Interruptible(TheUnifier(ub), k)), ub)
    /\ UNCHANGED <<simple_vars, conv_vars, in_cs>>

Next == Construct \/ Pull \/ RequestInterrupt

Spec == Init /\ [][Next]_vars

(***************************************************************************)
(* Specification SpecConv: one call of unify(env, lhs, rhs, ngen, p,       *)
(* max_steps); when it returns an engine's stream, the stream is pulled.   *)
(***************************************************************************)
InitConv ==
    /\ NoSimple
    /\ cv_lhs \in ConvTerms
    /\ cv_rhs \in ConvTerms
    /\ cv_r = NoResult
    /\ in_cs = <<>>
    /\ \E e \in BOOLEAN, n \in {SmallMaxSteps, LargeMaxSteps} :
           cv_o = unifier_options(e, n)
    /\ \E p \in {"null", "args"} : NoUnifier(p, FALSE, LargeMaxSteps)

\* The engine of line 1019 with the use_exception argument taken from the options
unify_engine_from_options(r, p, o, interrupt) ==
    unifier_fn(r.cs, r.s, p, o.use_exceptions, o.max_steps, "none", interrupt)

\* The engine unify(env, lhs, rhs, ngen, p, o) builds (lines 1025 and 1019):
\* only get_unifier_max_steps(o) is read, use_exception is the literal false
unify_engine(r, p, o, interrupt) ==
    unifier_fn(r.cs, r.s, p, FALSE, o.max_steps, "none", interrupt)

\* The state after unify(env, lhs, rhs, ...) reached its return statement with r
UnifyReturned(r) ==
    /\ cv_r' = r
    /\ IF r.first = "engine"
       THEN /\ \E k \in InterruptAfter :
                   Constructed(unify_engine(r, m_plugin, cv_o,
                                            thread_interrupt(g_interrupt, g_requests, k)))
            /\ in_cs' = r.cs
            /\ UNCHANGED outs
       ELSE UNCHANGED engine_vars

UnifyCall ==
    /\ cv_r = NoResult
    /\ pc = "new"
    /\ UnifyReturned(unify_lhs_rhs(cv_lhs, cv_rhs))
    /\ UNCHANGED <<simple_vars, cv_lhs, cv_rhs, cv_o>>

NextConv == UnifyCall \/ Pull \/ RequestInterrupt

SpecConv == InitConv /\ [][NextConv]_vars

(***************************************************************************)
(* Specification SpecQueue: the constructor's loop (line 291), iteration   *)
(* by iteration, on constraints that are enqueued.  A run of iterations on *)
(* equal non-delayed choice constraints is taken in one step.  The entries *)
(* that a run longer than MaxQueue inserts into m_cnstrs are kept as one   *)
(* interval in m_cnstrs_run: the queue of the code is m_cnstrs together    *)
(* with the entries first, ..., first + count - 1 -> c of every interval.  *)
(***************************************************************************)
\* The most constraints that are followed through the queue one by one
MaxQueue == 3

\* The length of a run of iterations
RunLength == g_first_delayed - 1

\* The counters are followed up to this value of m_next_cidx
CidxCap == g_first_delayed + MaxQueue

QueueMaxSteps == {SmallMaxSteps, g_first_delayed + MaxQueue}

\* Constraints the constructor enqueues: a choice constraint and a constraint
\* for the plugin (regular), a flex-rigid constraint and a universe level
\* constraint (delayed), a flex-flex constraint and a delayed choice
\* constraint (very delayed)
QueueCnstrs ==
    { mk_choice_cnstr(MetaM, <<mk_choice(ConC), mk_choice(ConD)>>, FALSE, {}),
      mk_eq_cnstr(mk_app1(FunF, mk_app1(MetaH, ConC)), mk_app1(FunF, mk_app1(FunF, ConC)), {}),
      mk_eq_cnstr(mk_app1(MetaH, ConC), mk_app1(FunF, ConC), {}),
      mk_level_eq_cnstr(mk_max(UnivU, mk_param_univ(5)), UnivU, {}),
      mk_eq_cnstr(mk_app1(MetaH, ConC), mk_app1(MetaH, ConD), {}),
      mk_choice_cnstr(MetaH, <<mk_choice(mk_lambda(TyA, mk_var(0)))>>, TRUE, {}) }

\* The constraint of a run, with the justification j
run_cnstr(j) == mk_choice_cnstr(MetaM, <<mk_choice(ConC), mk_choice(ConD)>>, FALSE, j)

\* The entry of in_cs that stands for the n equal inputs c of a run
mk_run(c, n) == [k |-> "run", c |-> c, count |-> n]

\* How many of n iterations pass the step test of check_system (line 299):
\* no iteration that finds m_num_steps > m_max_steps
ctor_passes_steps(u, n) ==
    IF u.max_steps + 1 - u.num_steps < n THEN u.max_steps + 1 - u.num_steps
    ELSE n

\* How many of n iterations of the constructor's loop on non-delayed choice
\* constraints pass check_system (lines 297-302): none when the interrupt
\* flag is set, no iteration that finds m_num_steps > m_max_steps, and none
\* after the poll that is followed by another thread's request
ctor_passes(u, n) ==
    IF u.interrupt \/ u.num_steps > u.max_steps THEN 0
    ELSE IF u.interrupt_after > 0 /\ u.interrupt_after < ctor_passes_steps(u, n)
    THEN u.interrupt_after
    ELSE ctor_passes_steps(u, n)

\* The interrupt flag and the pending request after k polls have passed
ctor_run_polled(u, k) ==
    IF u.interrupt_after = 0 \/ k = 0 THEN u
    ELSE IF u.interrupt_after > k THEN [u EXCEPT !.interrupt_after = @ - k]
    ELSE [u EXCEPT !.interrupt = TRUE, !.interrupt_after = 0, !.requests = @ + 1]

\* The engine after k iterations passed check_system and add_cnstr (line 657):
\* ids m_next_cidx, ..., m_next_cidx + k - 1 are given to the k constraints,
\* and an entry that was queued under one of these ids is replaced (line 429)
ctor_run_enqueued(u, c, k) ==
    [ctor_run_polled(u, k) EXCEPT !.num_steps = @ + k, !.next_cidx = @ + k, !.ret = TRUE,
              !.cnstrs = [x \in {i \in DOMAIN @ : i < u.next_cidx \/ i >= u.next_cidx + k}
                            |-> @[x]],
              !.cnstrs_run = Append(@, [first |-> u.next_cidx, count |-> k, c |-> c])]

\* n iterations, more than MaxQueue of which pass check_system; the iteration
\* after the last that passes, if there is one, ends in check_system's exception
ctor_run_long(u, c, n) ==
    IF ctor_passes(u, n) < n
    THEN check_system(ctor_run_enqueued(u, c, ctor_passes(u, n)))
    ELSE ctor_run_enqueued(u, c, n)

\* n >= 1 iterations of the constructor's loop (lines 291-293) on n inputs
\* equal to the non-delayed choice constraint c.  In conflict every iteration
\* returns at line 649.
ctor_run(u, c, n) ==
    IF Raised(u) THEN u
    ELSE IF in_conflict(u) THEN process_constraint(u, c)
    ELSE IF ctor_passes(u, n) <= MaxQueue
    THEN unifier_fn_body(u, [i \in 1..(IF ctor_passes(u, n) < n THEN ctor_passes(u, n) + 1
                                        ELSE n) |-> c])
    ELSE ctor_run_long(u, c, n)

\* The engine and pc after an iteration of the constructor's loop ended with
\* the record u
CtorIterated(u) ==
    /\ SetUnifier(u)
    /\ pc' = IF Raised(u) THEN "raised" ELSE "new"

InitQueue ==
    /\ NoSimple
    /\ NoConv
    /\ in_cs = <<>>
    /\ \E n \in QueueMaxSteps : NoUnifier("null", FALSE, n)

\* One iteration of the constructor's loop: process_constraint(cs[i])
CtorStep ==
    /\ pc = "new"
    /\ Len(in_cs) < MaxQueue
    /\ \E c \in QueueCnstrs :
         /\ \E k \in InterruptAfter :
              CtorIterated(process_constraint(Interruptible(TheUnifier("none"), k),
                               update_justification(c, mk_justification(Len(in_cs) + 1))))
         /\ in_cs' = Append(in_cs, update_justification(c, mk_justification(Len(in_cs) + 1)))
    /\ UNCHANGED <<simple_vars, conv_vars, outs>>

\* After how many polls of a run that begins now a request may arrive: early
\* in the run, or late in it
RunInterruptAfter ==
    IF ~g_interrupt /\ g_requests < MaxInterrupts
    THEN 0..MaxPolls \cup {999, 2 ^ 27 - 1, RunLength - 1}
    ELSE {0}

\* A run of iterations of the constructor's loop, of one or of RunLength inputs
CtorRun ==
    /\ pc = "new"
    /\ \E n \in {1, RunLength} :
         /\ Len(in_cs) < MaxQueue \/ n = RunLength
         /\ m_next_cidx + n <= CidxCap
         /\ \E k \in RunInterruptAfter :
              CtorIterated(ctor_run(Interruptible(TheUnifier("none"), k),
                                    run_cnstr(mk_justification(Len(in_cs) + 1)), n))
         /\ in_cs' = Append(in_cs, mk_run(run_cnstr(mk_justification(Len(in_cs) + 1)), n))
    /\ UNCHANGED <<simple_vars, conv_vars, outs>>

NextQueue == CtorStep \/ CtorRun \/ RequestInterrupt

SpecQueue == InitQueue /\ [][NextQueue]_vars

(***************************************************************************)
(* One solution stream, next() followed iteration by iteration of its      *)
(* while loop: pc is "loop" while a call of next() is inside the loop.     *)
(***************************************************************************)

\* The larger value of max_steps the engine is built with here.
MidMaxSteps == 40

\* A flex-rigid constraint whose imitation gives back a constraint of the
\* same shape on a fresh metavariable: ?h c =?= f (?h c)
DivergingInputs ==
    { << mk_eq_cnstr(mk_app1(MetaH, ConC), mk_app1(FunF, mk_app1(MetaH, ConC)), {}) >> }

LiveInputs ==
    UNION { { WithJst(cs) : cs \in [1..n -> CnstrPool] } : n \in 0..1 }
        \cup { WithJst(cs) : cs \in DivergingInputs \cup FlexRigidInputs }

InitLive ==
    /\ NoSimple
    /\ NoConv
    /\ in_cs \in LiveInputs
    /\ \E p \in Plugins, e \in BOOLEAN, n \in {SmallMaxSteps, MidMaxSteps} :
           NoUnifier(p, e, n)

\* next() has returned or raised iff out is not "run"
returned(u) == Raised(u) \/ u.out # "run"

\* The engine, pc and outs after the statements of next() that ended with the
\* record u: next() is in its loop, or it has returned or raised
Stepped(u) ==
    IF returned(u) THEN Pulled(u)
    ELSE SetUnifier(u) /\ pc' = "loop" /\ UNCHANGED outs

\* The same under the outcome ub of reading an empty m_conflict
SteppedWith(u, ub) ==
    /\ ub = "none" \/ u.ub_hit
    /\ Stepped(u)

\* u->next() is called and runs up to its while loop
PullEnter ==
    /\ pc = "live"
    /\ Len(outs) < MaxPulls
    /\ \E k \in InterruptAfter :
         \E ub \in UbOutcomes :
             SteppedWith(next_entry(Interruptible(TheUnifier(ub), k)), ub)
    /\ UNCHANGED <<simple_vars, conv_vars, in_cs>>

\* The engine inside the while loop of next()
InLoop(ub) == [TheUnifier(ub) EXCEPT !.site = "loop"]

\* One iteration of the while loop of next(), or its exit
LoopIteration ==
    /\ pc = "loop"
    /\ \E k \in InterruptAfter :
         \E ub \in UbOutcomes :
             SteppedWith(next_iteration(Interruptible(InLoop(ub), k)), ub)
    /\ UNCHANGED <<simple_vars, conv_vars, in_cs>>

NextLive == Construct \/ PullEnter \/ LoopIteration \/ RequestInterrupt

\* A call of next() that is inside its loop goes on running: weak fairness of
\* LoopIteration, WF_vars(LoopIteration), written out.  LoopIteration is
\* enabled exactly when pc = "loop".
LoopFairness == []<>(pc # "loop") \/ []<><<LoopIteration>>_vars

SpecLive == InitLive /\ [][NextLive]_vars /\ LoopFairness

(***************************************************************************)
(* PROPERTIES                                                              *)
(***************************************************************************)
\* Every subterm of e, the types of its local constants and metavariables included.
RECURSIVE SubTerms(_)
SubTerms(e) ==
    {e} \cup
    CASE e.k \in {"local", "meta"} -> SubTerms(e.t)
      [] e.k = "app" -> SubTerms(e.f) \cup SubTerms(e.a)
      [] e.k \in {"lam", "pi"} -> SubTerms(e.d) \cup SubTerms(e.b)
      [] e.k = "macro" -> UNION {SubTerms(e.args[i]) : i \in DOMAIN e.args}
      [] OTHER -> {}

\* e is a simple metavariable pattern: ?m x1 .. xn, the xi pairwise-distinct locals
IsPattern(e) ==
    LET args == get_app_args(e) IN
    /\ is_metavar(get_app_fn(e))
    /\ \A i \in DOMAIN args : is_local(args[i])
    /\ \A i, p \in DOMAIN args : i # p => args[i] # args[p]

\* e contains the metavariable m, or a local constant that is not among xs
OutOfScope(e, m, xs) ==
    \/ m \in SubTerms(e)
    \/ \E t \in SubTerms(e) : is_local(t) /\ t \notin SeqToSet(xs)

\* s2 is s1 with ?m := lambda xs. e under justification j, nothing else changed
AssignsLambda(s1, s2, m, xs, e, j) ==
    /\ s2.l = s1.l
    /\ DOMAIN s2.e = (DOMAIN s1.e) \cup {m.n}
    /\ \A n \in (DOMAIN s1.e) \ {m.n} : s2.e[n] = s1.e[n]
    /\ s2.e[m.n].j = j
    /\ apply_beta(s2.e[m.n].v, xs) = e
    /\ \A t \in SubTerms(s2.e[m.n].v) : is_local(t) => t \notin SeqToSet(xs)

\* The call was unify_simple(us_s, us_lhs, us_rhs, us_j) on expressions
us_on_exprs == us_nargs \in {3, 4} /\ is_expr(us_lhs)

\* C3: unify_simple(S, a, b, j) and unify_simple(S, b, a, j) return the same status.
C3_SymmetricStatus ==
    us_r # NoResult /\ us_on_exprs =>
        us_r.first = unify_simple(us_s, us_rhs, us_lhs, us_j).first

\* C4: when unify_simple returns (Solved, S'), instantiating lhs and rhs with S'
\* returns structurally equal terms.
C4_SolvedMakesEqual ==
    us_on_exprs /\ us_r.first = "Solved" =>
        LET a == instantiate_metavars(us_r.second, us_lhs).first
            b == instantiate_metavars(us_r.second, us_rhs).first IN
        ~has_diverge(a) /\ ~has_diverge(b) /\ a = b

\* The case of C5: lhs and rhs differ, lhs is a simple pattern ?m xs, rhs is not headed by ?m
C5_Case ==
    /\ us_r # NoResult
    /\ us_on_exprs
    /\ us_lhs # us_rhs
    /\ IsPattern(us_lhs)
    /\ get_app_fn(us_rhs) # get_app_fn(us_lhs)

\* C5: in that case the result is Failed with S unchanged iff rhs contains ?m or a
\* local constant not among xs, and otherwise Solved with ?m := lambda xs. rhs added to S.
C5_PatternRule ==
    C5_Case =>
        LET m == get_app_fn(us_lhs)
            xs == get_app_args(us_lhs)
            bad == OutOfScope(us_rhs, m, xs) IN
        /\ (us_r.first = "Failed") <=> bad
        /\ bad => us_r.second = us_s
        /\ ~bad => /\ us_r.first = "Solved"
                   /\ AssignsLambda(us_s, us_r.second, m, xs, us_rhs, us_j)

\* C5 witness: a pattern whose right-hand side has a local outside the pattern's
\* scope and does not contain the metavariable was answered
C5_Witness ==
    /\ C5_Case
    /\ get_app_fn(us_lhs) \notin SubTerms(us_rhs)
    /\ OutOfScope(us_rhs, get_app_fn(us_lhs), get_app_args(us_lhs))
    /\ us_r.first = "Failed"

\* C6: when lhs is not a simple pattern and rhs is a simple pattern ?n ys with lhs
\* not headed by ?n, the result is Failed if lhs contains ?n or a local outside ys,
\* and otherwise Solved with ?n := lambda ys. lhs.
C6_SymmetricRule ==
    ( /\ us_r # NoResult
      /\ us_on_exprs
      /\ us_lhs # us_rhs
      /\ ~IsPattern(us_lhs)
      /\ IsPattern(us_rhs)
      /\ get_app_fn(us_lhs) # get_app_fn(us_rhs) ) =>
        LET n == get_app_fn(us_rhs)
            ys == get_app_args(us_rhs)
            bad == OutOfScope(us_lhs, n, ys) IN
        /\ bad => us_r.first = "Failed"
        /\ ~bad => /\ us_r.first = "Solved"
                   /\ AssignsLambda(us_s, us_r.second, n, ys, us_lhs, us_j)


(***************************************************************************)
(* The engine: the solution stream.                                        *)
(***************************************************************************)
\* The pulls made so far
Pulls == 1..Len(outs)

\* The pulls that yielded a substitution
Yields == {i \in Pulls : outs[i].kind = "some"}

\* The equality constraints among the engine's inputs
EqInputs == {k \in DOMAIN in_cs : is_eq_cnstr(in_cs[k])}

\* e is headed by a metavariable
meta_headed(e) == is_meta(e)

\* The two sides of the input constraint c under the yielded substitution S
\* are equal, or one of them is headed by a metavariable
solves(S, c) ==
    \/ instantiate_metavars(S, c.lhs).first = instantiate_metavars(S, c.rhs).first
    \/ meta_headed(instantiate_metavars(S, c.lhs).first)
    \/ meta_headed(instantiate_metavars(S, c.rhs).first)

\* C1: every substitution S the solution stream yields makes the two sides of
\* every input equality constraint structurally equal, up to a side that is
\* still headed by a metavariable; it never leaves two distinct
\* metavariable-free terms.
C1_YieldedSolvesInputs ==
    \A i \in Yields : \A k \in EqInputs : solves(outs[i].s, in_cs[k])

\* C2: the engine calls assign only for a metavariable that has no value in
\* the current substitution: the assertions !m_subst.is_assigned(m) hold on
\* every call made so far by the constructor and by every pull.
C2_AssignOnlyUnassigned == h_reassigned = FALSE

\* The term metavariables that have a value in s
assigned_metavars(s) == DOMAIN s.e

\* C2, the case: two pulls yielded substitutions that give one metavariable of
\* the input two different values (one on each branch, the state having been
\* restored in between)
C2_Witness ==
    \E i \in Yields, k \in Yields :
        /\ i < k
        /\ \E m \in assigned_metavars(outs[i].s) \cap assigned_metavars(outs[k].s) :
               /\ m \in {21, 22, 23}
               /\ outs[i].s.e[m] # outs[k].s.e[m]

\* C7: in unify(env, lhs, rhs, ...), no constraint emitted by the
\* definitional-equality check makes unify_simple assign a metavariable that an
\* earlier emitted constraint already gave a value.
C7_ConvAssignsOnce == cv_r # NoResult => ~cv_r.reassigned

\* C8 as stated: whenever the first pull finishes with an empty case-split
\* stack (for the empty constraint set in particular), the stream yields
\* exactly one substitution, the first pull's (for the empty set: the initial
\* substitution), and every later pull returns end-of-stream without raising,
\* whatever use_exception is.
C8_EmptyStackSingleSolution ==
    (Len(outs) >= 1 /\ outs[1].nsplits = 0)
        => /\ outs[1].kind = "some"
           /\ in_cs = <<>> => outs[1].s = empty_substitution
           /\ \A i \in Pulls : i >= 2 => outs[i].kind = "none" /\ pc = "live"

\* C8, amended: the first pull on the empty constraint set yields the initial
\* substitution and leaves the case-split stack empty; and whenever the first
\* pull yields a substitution and leaves the case-split stack empty, that is
\* the only substitution the stream yields and every later pull returns
\* end-of-stream without raising, whatever use_exception is.
C8_SingleSolution ==
    /\ (in_cs = <<>> /\ Len(outs) >= 1)
           => /\ outs[1].kind = "some"
              /\ outs[1].s = empty_substitution
              /\ outs[1].nsplits = 0
    /\ (Len(outs) >= 1 /\ outs[1].kind = "some" /\ outs[1].nsplits = 0)
           => /\ Yields = {1}
              /\ \A i \in Pulls : i >= 2 => outs[i].kind = "none" /\ pc = "live"

\* C8, the case: the empty constraint set, pulled three times from an engine
\* that raises exceptions
C8_Witness ==
    /\ in_cs = <<>>
    /\ m_use_exception
    /\ Len(outs) >= 3
    /\ outs[1].kind = "some"
    /\ outs[1].s = empty_substitution
    /\ outs[2].kind = "none"
    /\ outs[3].kind = "none"

\* C8, the general case: a non-empty input solved without a case split,
\* pulled again from an engine that raises exceptions
C8_WitnessSolved ==
    /\ Len(outs) >= 3
    /\ in_cs # <<>>
    /\ m_use_exception
    /\ outs[1].kind = "some"
    /\ outs[1].nsplits = 0
    /\ outs[1].s # empty_substitution
    /\ outs[2].kind = "none"

\* A first pull that finishes with an empty case-split stack and yields
\* nothing: it ends on the conflict the constructor met, and every pull of an
\* engine that raises exceptions raises
C8_FirstPullFails ==
    /\ Len(outs) >= 2
    /\ outs[1].nsplits = 0
    /\ outs[1].kind = "unifier_exception"
    /\ outs[2].kind = "unifier_exception"
    /\ Yields = {}

\* C9: a pull made after a substitution was yielded, with case splits left on
\* the stack, runs resolve_conflict on the synthetic conflict; when
\* resolve_conflict does not succeed the pull returns end-of-stream, whatever
\* use_exception is.
C9_LaterPullEndsStream ==
    \A i \in Pulls :
        (i >= 2 /\ outs[i - 1].kind = "some" /\ outs[i].site = "later")
            => outs[i].kind = "none"

\* The pulls in which failure() was called on a conflict met while the input
\* constraints were processed (the conflict is there when the first pull
\* starts, and stays) or while the queue was drained
FailedPulls ==
    {i \in Pulls : /\ \/ outs[i].site = "loop"
                      \/ outs[i].site = "entry" /\ \A k \in 1..(i - 1) : outs[k].site # "later"
                   /\ outs[i].kind \in {"none", "unifier_exception"}
                   /\ outs[i].conflict
                   /\ ~outs[i].ub_hit}

\* C10: a pull that ends on a conflict that cannot be resolved raises the
\* unifier exception if use_exception is true, and the exception carries the
\* engine's conflict justification, which includes the justification of an
\* input constraint; if use_exception is false the pull returns end-of-stream.
C10_UnresolvedConflict ==
    /\ \A i \in FailedPulls :
           IF m_use_exception
           THEN /\ outs[i].kind = "unifier_exception"
                /\ \E k \in DOMAIN in_cs : in_cs[k].j \subseteq outs[i].j
           ELSE outs[i].kind = "none"
    /\ (Len(outs) \in FailedPulls /\ m_use_exception)
           => m_conflict = [some |-> TRUE, j |-> outs[Len(outs)].j]

\* C10, the case: the occurs-check failure ?m =?= f ?m, and a conflict on the
\* second alternative of a case split, both with use_exception true
C10_Witness ==
    /\ m_use_exception
    /\ Len(outs) >= 1
    /\ Len(outs) \in FailedPulls
    /\ outs[Len(outs)].kind = "unifier_exception"
    /\ in_cs = WithJst(<<mk_eq_cnstr(MetaM, mk_app1(FunF, MetaM), {})>>)
    /\ outs[Len(outs)].j = mk_justification(1)

(***************************************************************************)
(* The engine: the step counter.                                           *)
(***************************************************************************)
\* The pulls that raised the step-limit exception
StepLimitPulls == {i \in Pulls : outs[i].kind = "step_limit"}

\* C11: m_num_steps counts the dispatches that check_system let through; with
\* max_steps = N, dispatches 1..N complete and dispatch N+1 raises the
\* step-limit exception: no more than N dispatches are ever let through, and
\* when a pull has just raised the exception exactly N have been.
C11_StepLimitExact ==
    /\ m_num_steps <= m_max_steps
    /\ Len(outs) \in StepLimitPulls => m_num_steps = m_max_steps

\* C12: once a pull has raised the step-limit exception, no later pull on the
\* stream yields a substitution: each later pull raises or ends the stream.
C12_StepLimitFatal ==
    \A i \in StepLimitPulls : \A k \in Pulls : k > i => outs[k].kind # "some"

(***************************************************************************)
(* The convenience form: what it returns.                                  *)
(***************************************************************************)
\* The invocations of the callback in which unify_simple answered st
CallsWith(st) == {i \in DOMAIN cv_r.calls : cv_r.calls[i].status = st}

\* The constraints unify_simple answered Unsupported, in emission order
UnsupportedCalls ==
    LET sel == SelectSeq(cv_r.calls, LAMBDA x : x.status = "Unsupported")
    IN  [i \in DOMAIN sel |-> sel[i].c]

\* The substitution accumulated from the constraints unify_simple solved
AccumulatedSubst ==
    IF CallsWith("Solved") = {} THEN empty_substitution
    ELSE cv_r.calls[CHOOSE i \in CallsWith("Solved") :
                        \A k \in CallsWith("Solved") : k <= i].s

\* C13: unify(env, lhs, rhs, ...) returns the empty stream iff is_def_eq
\* returned false or unify_simple answered Failed for an emitted constraint,
\* and every constraint emitted after that one is ignored; otherwise it
\* returns the one-element stream of the accumulated substitution iff no
\* constraint came back Unsupported, and else the stream of an engine built
\* with use_exception = false from exactly the Unsupported constraints, in
\* emission order, and the accumulated substitution.
C13_ConvResult ==
    cv_r # NoResult =>
        /\ cv_r.first = "empty" <=> (~cv_r.ok \/ CallsWith("Failed") # {})
        /\ \A i \in CallsWith("Failed") : \A k \in DOMAIN cv_r.calls :
               k > i => cv_r.calls[k].status = "Ignored"
        /\ \A k \in CallsWith("Ignored") : \E i \in CallsWith("Failed") : i < k
        /\ cv_r.first = "single" <=>
               (cv_r.ok /\ CallsWith("Failed") = {} /\ CallsWith("Unsupported") = {})
        /\ cv_r.first = "single" => cv_r.s = AccumulatedSubst /\ pc = "new"
        /\ cv_r.first = "empty" => pc = "new"
        /\ cv_r.first = "engine" =>
               /\ CallsWith("Unsupported") # {}
               /\ cv_r.cs = UnsupportedCalls
               /\ cv_r.s = AccumulatedSubst
               /\ in_cs = UnsupportedCalls
               /\ pc # "new"
               /\ ~m_use_exception

\* C13, the case: a constraint answered Failed with a later one ignored
C13_WitnessFailed ==
    /\ cv_r # NoResult
    /\ cv_r.ok
    /\ cv_r.first = "empty"
    /\ CallsWith("Ignored") # {}

\* C13, the case: an engine built from the Unsupported constraints, with the
\* substitution of the Solved ones
C13_Witness ==
    /\ cv_r # NoResult
    /\ cv_r.first = "engine"
    /\ CallsWith("Solved") # {}
    /\ Len(cv_r.cs) >= 1
    /\ cv_r.s # empty_substitution

(***************************************************************************)
(* The engine: the state a pull returns in.                                *)
(***************************************************************************)
\* The last pull yielded a substitution
JustYielded == Len(outs) >= 1 /\ outs[Len(outs)].kind = "some"

\* C14: when a pull yields a substitution the constraint queue is empty and
\* the engine is not in conflict (the two assertions at the end of next()),
\* and the substitution yielded is the engine's.
C14_YieldState ==
    JustYielded =>
        /\ DOMAIN m_cnstrs = {}
        /\ ~m_conflict.some
        /\ ~outs[Len(outs)].conflict
        /\ outs[Len(outs)].s = m_subst

\* C14, the case: a yield reached by backtracking into a case split, on an
\* input with a flex-flex constraint
C14_Witness ==
    /\ JustYielded
    /\ Len(outs) >= 2
    /\ outs[Len(outs) - 1].kind = "some"
    /\ m_case_splits # <<>>
    /\ \E k \in EqInputs : is_meta(in_cs[k].lhs) /\ is_meta(in_cs[k].rhs)

(***************************************************************************)
(* The engine: backjumping.                                                *)
(***************************************************************************)
\* C15: resolve_conflict discards a case split only if the conflict does not
\* depend on the split's assumption or the split has no alternative left, so a
\* failure is reported only after every alternative of every case split the
\* conflict depended on was attempted.
C15_PopOnlyExhausted ==
    \A p \in h_pops : ~p.depends \/ p.left = 0

(***************************************************************************)
(* The engine: assign.                                                     *)
(***************************************************************************)
\* The yielded substitutions that give ?m, declared of type A, the constant b
\* of type B
IllTypedYields == {i \in Yields : /\ 21 \in DOMAIN outs[i].s.e
                                  /\ outs[i].s.e[21].v = ConB}

\* C16: when the type of v is not definitionally equal to the declared type
\* of m, the engine is in conflict when assign(m, v, j) returns, and the branch
\* is abandoned: no substitution with the ill-typed assignment is yielded.
C16_MismatchSetsConflict ==
    /\ h_mismatch = FALSE
    /\ IllTypedYields = {}

(***************************************************************************)
(* The engine: universe level constraints.                                 *)
(***************************************************************************)
\* The engine was built from the one constraint ?u =?= R with R a successor
\* that contains ?u, and no pull was made
BuiltFromLevelOccurs ==
    /\ pc = "live"
    /\ outs = <<>>
    /\ Len(in_cs) = 1
    /\ is_level_eq_cnstr(in_cs[1])
    /\ is_meta_lvl(in_cs[1].lhs)
    /\ is_succ(in_cs[1].rhs)
    /\ occurs(in_cs[1].lhs, in_cs[1].rhs)

\* C17: a level constraint whose one side is a universe metavariable ?u and
\* whose other side is a successor that contains ?u fails with the conflict
\* set to the composed justification; it is not dropped with neither a
\* conflict nor an enqueue.
C17_LevelOccursFails ==
    BuiltFromLevelOccurs =>
        /\ m_conflict = [some |-> TRUE, j |-> in_cs[1].j]
        /\ m_conflict.some \/ DOMAIN m_cnstrs # {}

\* C18: when resolve_conflict discards a case split the conflict depended on,
\* the conflict carried onward includes the split's failed_justifications, so
\* that the conflict of every alternative attempted on it reaches the
\* reported failure.
C18_FailedJustificationsKept ==
    \A p \in h_pops : p.depends => p.failed \subseteq p.conflict

(***************************************************************************)
(* The engine: choice constraints.                                         *)
(***************************************************************************)
\* The input choice constraints an alternative g that was processed can come from
ChoiceInputsOf(g) ==
    {k \in DOMAIN in_cs : /\ is_choice_cnstr(in_cs[k])
                          /\ in_cs[k].e = g.m
                          /\ \E i \in DOMAIN in_cs[k].fn : in_cs[k].fn[i] = g.r}

\* C19: every alternative of a choice constraint that is processed, the first
\* one and each later one taken from the case split on backtracking, gives its
\* constraints a justification that includes the choice constraint's own
\* justification, the alternative's justification and the assumption of the
\* current case split.
C19_ChoiceJustification ==
    \A g \in h_choices :
        /\ g.r.j \subseteq g.j
        /\ g.a \subseteq g.j
        /\ \E k \in ChoiceInputsOf(g) : in_cs[k].j \subseteq g.j

(***************************************************************************)
(* The engine: flex-rigid constraints.                                     *)
(***************************************************************************)
RECURSIVE lambda_core(_)

\* The body of e under its leading lambdas
lambda_core(e) == IF is_lambda(e) THEN lambda_core(binding_body(e)) ELSE e

\* An alternative of process_flex_rigid ends with the assignment ?m =?= v; it
\* is a projection when v is a lambda abstraction of a bound variable
is_projection_alt(alt) ==
    /\ alt # <<>>
    /\ is_var(lambda_core(alt[Len(alt)].rhs))

\* C20: when process_flex_rigid generates projection alternatives and the
\* imitation alternative, the imitation is the one processed first and the
\* case split's tail holds the projections.
C20_ImitationFirst ==
    \A i \in DOMAIN m_case_splits :
        m_case_splits[i].kind = "ho" =>
            \A k \in DOMAIN m_case_splits[i].tail : is_projection_alt(m_case_splits[i].tail[k])

(***************************************************************************)
(* The engine: case splits.                                                *)
(***************************************************************************)
\* The snapshot a case split holds
split_snapshot(d) ==
    [subst |-> d.subst, cnstrs |-> d.cnstrs,
     mvar_occs |-> d.mvar_occs, mlvl_occs |-> d.mlvl_occs]

\* C21: each restore of a case split sets the engine's substitution, queue and
\* both occurrence indices to exactly the values they had when the split was
\* created, and the snapshot a split holds is never changed.
C21_RestoreExact ==
    /\ \A r \in h_restores : r.exact
    /\ \A i \in DOMAIN m_case_splits :
           split_snapshot(m_case_splits[i]) = m_case_splits[i].born

\* A restore happened after the engine's state had moved away from the snapshot
C21_Witness == \E r \in h_restores : r.changed /\ r.exact

(***************************************************************************)
(* The engine: the constraint queue.                                       *)
(***************************************************************************)
\* The band add_cnstr, add_delayed_cnstr and add_very_delayed_cnstr are called
\* for: 0 regular, 1 delayed, 2 very delayed (lines 654-657, 564-572, 632-637)
band_of(c) ==
    IF is_choice_cnstr(c) THEN (IF c.delayed THEN 2 ELSE 0)
    ELSE IF is_level_eq_cnstr(c) THEN 1
    ELSE IF is_flex_flex(c) THEN 2
    ELSE IF is_flex_rigid(c) THEN 1
    ELSE 0

\* C22: every regular constraint has its insertion-id in [0, 2^28), every
\* delayed one in [2^28, 2^30) and every very delayed one at or above 2^30,
\* so every regular constraint comes before every delayed one and every
\* delayed one before every very delayed one, for every max_steps.
C22_Bands ==
    /\ \A i \in DOMAIN m_cnstrs :
           /\ band_of(m_cnstrs[i]) = 0 => i < g_first_delayed
           /\ band_of(m_cnstrs[i]) = 1 => i >= g_first_delayed /\ i < g_first_very_delayed
           /\ band_of(m_cnstrs[i]) = 2 => i >= g_first_very_delayed
    /\ \A i, k \in DOMAIN m_cnstrs :
           band_of(m_cnstrs[i]) < band_of(m_cnstrs[k]) => i < k
    /\ \A r \in DOMAIN m_cnstrs_run :
           /\ band_of(m_cnstrs_run[r].c) = 0
           /\ m_cnstrs_run[r].first + m_cnstrs_run[r].count <= g_first_delayed
           /\ \A i \in DOMAIN m_cnstrs :
                  /\ i < m_cnstrs_run[r].first
                         \/ i >= m_cnstrs_run[r].first + m_cnstrs_run[r].count
                  /\ band_of(m_cnstrs[i]) > 0 =>
                         i >= m_cnstrs_run[r].first + m_cnstrs_run[r].count

(***************************************************************************)
(* The engine: the occurrence indices.                                     *)
(***************************************************************************)
\* The engine is built, is not in conflict, and no method of it is running
Quiescent == pc = "live" /\ ~m_conflict.some

\* The metavariables the queued constraint c references under the substitution s
cnstr_metas(s, c) ==
    IF is_eq_cnstr(c)
    THEN instantiate_metavars(s, c.lhs).unassigned_exprs
             \cup instantiate_metavars(s, c.rhs).unassigned_exprs
    ELSE {}

\* The universe metavariables the queued constraint c references under s
cnstr_level_metas(s, c) ==
    IF is_eq_cnstr(c)
    THEN instantiate_metavars(s, c.lhs).unassigned_lvls
             \cup instantiate_metavars(s, c.rhs).unassigned_lvls
    ELSE IF is_level_eq_cnstr(c)
    THEN instantiate_metavars_lvl(s, c.lhs).unassigned_lvls
             \cup instantiate_metavars_lvl(s, c.rhs).unassigned_lvls
    ELSE {}

\* C23: for every metavariable m and every id recorded under m in an
\* occurrence index, the queue holds a constraint with that id whose form
\* under the current substitution references m, whenever the engine is not in
\* conflict and no dispatch is in progress.
C23_IndexSound ==
    Quiescent =>
        /\ \A m \in DOMAIN m_mvar_occs : \A cidx \in m_mvar_occs[m] :
               /\ cidx \in DOMAIN m_cnstrs
               /\ m \in cnstr_metas(m_subst, m_cnstrs[cidx])
        /\ \A m \in DOMAIN m_mlvl_occs : \A cidx \in m_mlvl_occs[m] :
               /\ cidx \in DOMAIN m_cnstrs
               /\ m \in cnstr_level_metas(m_subst, m_cnstrs[cidx])

\* C24: whenever the engine is not in conflict and no dispatch is in progress,
\* no assigned metavariable has an entry in an occurrence index and no Eq or
\* LevelEq constraint in the queue references an assigned metavariable.
C24_AssignedWoken ==
    Quiescent =>
        /\ \A m \in DOMAIN m_mvar_occs : ~is_assigned(m_subst, m)
        /\ \A m \in DOMAIN m_mlvl_occs : ~is_assigned_lvl(m_subst, m)
        /\ \A cidx \in DOMAIN m_cnstrs :
               is_eq_cnstr(m_cnstrs[cidx]) =>
                   /\ \A m \in expr_metas(m_cnstrs[cidx].lhs) \cup expr_metas(m_cnstrs[cidx].rhs) :
                          ~is_assigned(m_subst, m)
                   /\ \A m \in expr_level_metas(m_cnstrs[cidx].lhs)
                                   \cup expr_level_metas(m_cnstrs[cidx].rhs) :
                          ~is_assigned_lvl(m_subst, m)
        /\ \A cidx \in DOMAIN m_cnstrs :
               is_level_eq_cnstr(m_cnstrs[cidx]) =>
                   \A m \in level_metas(m_cnstrs[cidx].lhs) \cup level_metas(m_cnstrs[cidx].rhs) :
                       ~is_assigned_lvl(m_subst, m)

\* The two sides of the queued constraint c are structurally identical under s
sides_identical(s, c) ==
    IF is_eq_cnstr(c)
    THEN instantiate_metavars(s, c.lhs).first = instantiate_metavars(s, c.rhs).first
    ELSE IF is_level_eq_cnstr(c)
    THEN instantiate_metavars_lvl(s, c.lhs).first = instantiate_metavars_lvl(s, c.rhs).first
    ELSE FALSE

\* C25: whenever the engine is not in conflict and no dispatch is in progress,
\* the queue contains no Eq or LevelEq constraint whose two sides are
\* structurally identical under the current substitution.
C25_NoTrivialQueued ==
    Quiescent => \A cidx \in DOMAIN m_cnstrs : ~sides_identical(m_subst, m_cnstrs[cidx])

\* C26: every case split on the stack has an assumption index strictly below
\* next_assumption_idx, the indices on the stack are strictly increasing from
\* bottom to top, a restored split takes a fresh index, and the justification
\* of its next alternative carries the split's assumption.
C26_AssumptionIndices ==
    /\ \A i \in DOMAIN m_case_splits :
           m_case_splits[i].assumption_idx < m_next_assumption_idx
    /\ \A i, k \in DOMAIN m_case_splits :
           i < k => m_case_splits[i].assumption_idx < m_case_splits[k].assumption_idx
    /\ \A r \in h_restores : r.fresh
    /\ \A g \in h_choices : g.a \subseteq g.j

\* Two case splits are on the stack and the top one was restored
C26_Witness ==
    /\ Len(m_case_splits) >= 2
    /\ m_case_splits[Len(m_case_splits)].failed_justifications # {}
    /\ h_restores # {}

\* C27: over one whole assign call, the nested assignments and wake-ups
\* included, the constraints recorded under the assigned metavariable that get
\* re-dispatched are re-dispatched in ascending cidx order.
C27_WakeAscending == \A w \in h_wake_ups : w.ascending

\* C28: the alternatives of a case split are attempted in the order they were
\* generated, each at most once, and an alternative is taken from a case split
\* only while no newer case split is on the stack; a later pull resumes at
\* the top-most case split.
C28_DepthFirstHeadFirst ==
    /\ \A a \in h_attempts : a.inorder /\ a.newer = 0
    /\ \A i \in DOMAIN m_case_splits :
           /\ m_case_splits[i].tried <= Len(m_case_splits[i].gen)
           /\ m_case_splits[i].tail
                  = SubSeq(m_case_splits[i].gen, m_case_splits[i].tried + 1,
                           Len(m_case_splits[i].gen))

\* After a later pull two case splits are on the stack, and alternatives
\* were taken from the tails of both
C28_Witness ==
    /\ h_attempts # {}
    /\ Len(outs) >= 2
    /\ Len(m_case_splits) >= 2
    /\ m_case_splits[1].tried >= 1
    /\ m_case_splits[2].tried >= 1

\* C29: process_flex_rigid with no alternative sets a conflict with the
\* constraint's justification; with exactly one alternative it processes it
\* without a case split, without consuming an assumption index and with no
\* assumption; with two or more it pushes exactly one case split, which holds
\* all alternatives but the first, and processes the first under the
\* assumption of that split.
C29_FlexRigidBranching ==
    \A r \in h_flex_rigids :
        /\ r.n = 0 => /\ r.conflict = [some |-> TRUE, j |-> r.j]
                      /\ r.pushed = 0 /\ r.consumed = 0
        /\ r.n = 1 => r.pushed = 0 /\ r.consumed = 0 /\ r.a = {} /\ ~r.conflict.some
        /\ r.n >= 2 => /\ r.pushed = 1 /\ r.consumed = 1
                       /\ r.holds_rest
                       /\ r.a = r.top
                       /\ ~r.conflict.some

\* process_flex_rigid was called with no alternative, with one and with two
C29_Witness ==
    /\ \E r \in h_flex_rigids : r.n = 0
    /\ \E r \in h_flex_rigids : r.n = 1
    /\ \E r \in h_flex_rigids : r.n >= 2

\* The argument positions of the call r for which a projection is generated
ProjectedArgs(r) ==
    {i \in DOMAIN r.margs :
        \/ is_local(r.margs[i]) /\ r.margs[i] = r.rhs
        \/ ~is_local(r.margs[i]) /\ ~is_local(r.rhs)}

\* The projection on the argument at position i: ?m := lambda xs. x_(k-i),
\* after a_i =?= R when a_i is not a local constant
ProjectionOn(r, i) ==
    (IF is_local(r.margs[i]) THEN <<>> ELSE <<mk_eq_cnstr(r.margs[i], r.rhs, r.j)>>)
        \o <<mk_eq_cnstr(r.m, mk_lambda_for(mlocal_type(r.m), mk_var(Len(r.margs) - i)), r.j)>>

\* C30: process_flex_rigid on ?m a1..ak =?= R generates, in argument order,
\* the projection {?m := lambda xs. x_(k-i)} iff a_i is a local equal to R,
\* the projection {a_i =?= R; ?m := lambda xs. x_(k-i)} iff neither a_i nor R
\* is a local, nothing for the position otherwise, and then exactly one
\* imitation unless R is a local; the alternatives are empty exactly when R
\* is a local that equals none of the arguments.
C30_FlexRigidAlternatives ==
    \A r \in h_flex_alts :
        /\ Len(r.alts) = Cardinality(ProjectedArgs(r)) + (IF is_local(r.rhs) THEN 0 ELSE 1)
        /\ \A i \in ProjectedArgs(r) :
               r.alts[Cardinality({x \in ProjectedArgs(r) : x <= i})] = ProjectionOn(r, i)
        /\ ~is_local(r.rhs) =>
               /\ ~is_projection_alt(r.alts[Len(r.alts)])
               /\ r.alts[Len(r.alts)] # <<>>
               /\ r.alts[Len(r.alts)][Len(r.alts[Len(r.alts)])].lhs = r.m
        /\ r.alts = <<>> <=>
               (is_local(r.rhs) /\ \A i \in DOMAIN r.margs : r.margs[i] # r.rhs)

\* process_flex_rigid built the projections on both of two arguments and the
\* imitation
C30_Witness ==
    \E r \in h_flex_alts :
        /\ Len(r.margs) = 2
        /\ ProjectedArgs(r) = {1, 2}
        /\ Len(r.alts) = 3

\* ---- C31 ----

\* C31: a call of process_constraint or process_constraint_cidx made while the
\* engine is in conflict returns false and leaves the substitution, the
\* queue, the occurrence indices, m_next_cidx and m_num_steps as they were; a
\* call of process_constraint_cidx(i) with no constraint of id i queued leaves
\* them as they were too; and the constraints of a wake-up that were queued
\* and were not re-dispatched are still queued, unchanged, when assign returns.
C31_ConflictNoOp ==
    /\ \A d \in h_dispatches :
           /\ d.conflict => (d.returned /\ ~d.ret /\ d.same)
           /\ (d.method = "process_constraint_cidx" /\ ~d.queued)
                  => (d.returned /\ d.same)
    /\ \A w \in h_wake_ups : w.kept

\* Both methods were called in conflict, process_constraint_cidx on a queued
\* constraint and, out of conflict, on an id that was queued no longer; and a
\* wake-up ended in conflict with an awakened constraint left in the queue.
C31_Witness ==
    /\ \E d \in h_dispatches : d.method = "process_constraint" /\ d.conflict
    /\ \E d \in h_dispatches : d.method = "process_constraint_cidx" /\ d.conflict /\ d.queued
    /\ \E d \in h_dispatches : d.method = "process_constraint_cidx" /\ ~d.conflict /\ ~d.queued
    /\ \E w \in h_wake_ups : w.conflict /\ w.skipped # {}

\* ---- C32 ----

\* C32: between the engine's operations, and at every call of
\* process_constraint and process_constraint_cidx, the type checker has as
\* many savepoints open as there are case splits on the stack; and m_tc.pop()
\* is only ever called with a savepoint open.
C32_SavepointsMatchSplits ==
    /\ m_tc_saves = Len(m_case_splits)
    /\ \A d \in h_dispatches : d.saves = d.splits
    /\ \A n \in h_tc_pops : n >= 1

\* A case split is on the stack after splits were created, restored and
\* discarded, and a constraint was dispatched with two splits on the stack.
C32_Witness ==
    /\ Len(m_case_splits) >= 1
    /\ h_restores # {}
    /\ h_pops # {}
    /\ \E d \in h_dispatches : d.splits = 2

\* ---- C33 ----

\* C33: a call of next() never stays in its loop for ever: every iteration
\* that does not end the call advances m_num_steps, which never exceeds
\* m_max_steps + 1, so the call yields, returns end-of-stream or raises
\* (a step inside the loop that leaves m_num_steps alone is another thread
\* setting the interrupt flag, which ends the call at the next iteration).
C33_PullTerminates ==
    /\ (pc = "loop") ~> (pc # "loop")
    /\ [][(pc = "loop" /\ pc' = "loop") =>
              \/ m_num_steps' > m_num_steps
              \/ ~g_interrupt /\ g_interrupt' /\ m_num_steps' = m_num_steps]_vars
    /\ [][(pc = "loop" /\ g_interrupt /\ m_num_steps' # m_num_steps) => FALSE]_vars
    /\ [](m_num_steps <= m_max_steps + 1)

\* The pull on ?h c =?= f (?h c) ended with the step-limit exception, after
\* imitation had put four case splits on the stack.
C33_Witness ==
    /\ in_cs \in { WithJst(cs) : cs \in DivergingInputs }
    /\ m_max_steps = MidMaxSteps
    /\ Len(outs) >= 1
    /\ outs[1].kind = "step_limit"
    /\ outs[1].nsplits >= 4

\* ---- C34 ----

\* C34: restore_state leaves m_next_cidx, m_num_steps and m_ngen as they were;
\* from one operation of the engine to the next m_next_cidx and m_num_steps
\* never decrease; no id is given to a constraint twice; and m_num_steps, which
\* counts the dispatches and loop iterations of all branches and all pulls,
\* never exceeds m_max_steps + 1.
C34_CountersSurviveRestore ==
    /\ [](\A r \in h_restores : r.counters)
    /\ [][m_next_cidx' >= m_next_cidx /\ m_num_steps' >= m_num_steps]_vars
    /\ [](\A a, b \in h_issued : a.id = b.id => a = b)
    /\ [](m_num_steps <= m_max_steps + 1)

\* A split was restored with both counters moved on since the engine was
\* built, a constraint was given an id after a restore, and a second pull was
\* made with a split on the stack.
C34_Witness ==
    /\ \E r \in h_restores : r.changed /\ r.next_cidx > 0 /\ r.steps > 1
    /\ \E a \in h_issued : a.after_restore
    /\ \E a \in h_issued : ~a.after_restore
    /\ Len(outs) >= 2
    /\ outs[1].nsplits >= 1

\* ---- C35 ----

\* C35: the constraint that causes a case split is out of the queue when the
\* split is created, so it is not in the split's snapshot, it is not in the
\* queue after a restore of the split nor at any later moment the split is on
\* the stack, and no split above it on the stack is caused by the same
\* constraint.  (Backtracking into an older split, whose snapshot holds the
\* constraint, lets it cause a split again.)
C35_BranchingConstraintRemoved ==
    /\ \A n \in h_created : ~n.queued
    /\ \A r \in h_restores : ~r.cause_queued
    /\ \A i, k \in DOMAIN m_case_splits :
           i < k => m_case_splits[i].cause # m_case_splits[k].cause
    /\ \A i \in DOMAIN m_case_splits :
           /\ m_case_splits[i].cause \in { a.id : a \in h_issued }
           /\ m_case_splits[i].cause \notin DOMAIN m_case_splits[i].cnstrs
           /\ m_case_splits[i].cause \notin DOMAIN m_cnstrs

\* Two splits of different kinds are on the stack, a split was restored
\* after the engine's state had moved on, constraints were queued after a
\* restore, and one constraint caused a split twice.
C35_Witness ==
    /\ Len(m_case_splits) >= 2
    /\ m_case_splits[1].kind # m_case_splits[2].kind
    /\ \E r \in h_restores : r.changed
    /\ \E a \in h_issued : a.after_restore
    /\ \E n1, n2 \in h_created : n1.cause = n2.cause /\ n1 # n2


\* ---- C36 ----
\* C36: whatever unifier.use_exceptions says, the engine that
\* unify(env, lhs, rhs, ...) builds has use_exception = false and takes its
\* step limit from the options; no pull of its stream raises the unifier
\* exception: a pull that ends in a conflict with no case split left returns
\* none (the stream ends), and the only exception of the engine that leaves
\* the constructor or a pull is the step-limit exception: any other one is
\* the interrupted exception, thrown by a poll that found the thread's
\* interrupt flag set (it was set before the call, or a request arrived
\* during the call).
C36_ConvNeverRaisesUnifierException ==
    /\ [](pc = "live" => /\ cv_r.first = "engine"
                         /\ ~m_use_exception
                         /\ m_max_steps = cv_o.max_steps)
    /\ [](\A i \in DOMAIN outs :
             /\ outs[i].kind \in {"some", "none", "step_limit", "interrupted"}
             /\ outs[i].kind = "step_limit" => m_num_steps > m_max_steps
             /\ outs[i].conflict /\ outs[i].kind \notin {"step_limit", "interrupted"} =>
                    /\ outs[i].kind = "none"
                    /\ outs[i].nsplits = 0)
    /\ [][/\ pc' = "raised" => (g_interrupt \/ g_requests' > g_requests) /\ ~g_interrupt'
          /\ (Len(outs') > Len(outs) /\ outs'[Len(outs')].kind = "interrupted") =>
                 (g_interrupt \/ g_requests' > g_requests) /\ ~g_interrupt']_vars

\* The options ask for exceptions, and the stream of the engine ended at a
\* conflict that no case split could resolve, after a solution or at once
C36_Witness ==
    /\ cv_o.use_exceptions
    /\ pc = "live"
    /\ \E i \in DOMAIN outs : outs[i].kind = "none" /\ outs[i].conflict

\* The options ask for exceptions, and a pull raised the step-limit exception
C36_WitnessStepLimit ==
    /\ cv_o.use_exceptions
    /\ \E i \in DOMAIN outs : outs[i].kind = "step_limit"

=============================================================================
